---- MODULE Spec2Model ----
(***************************************************************************)
(* Model of the memory retrieval engine: the chunker and the ingestion     *)
(* pipeline of scripts/index.py and the hybrid search of scripts/search.py *)
(* and scripts/mcp_server.py.                                              *)
(*                                                                         *)
(* Representation.  A text is the sequence of its '\n'-separated lines     *)
(* (what text.split('\n') returns: never empty, the empty text is the one  *)
(* empty line).  A line is one of a few line kinds, each with a word       *)
(* count, a keyword and an embedding direction.  Scores are fixed-point    *)
(* integers in units of 1/Scale; fused scores in units of 1/(10*Scale).    *)
(***************************************************************************)
EXTENDS Integers, Sequences, FiniteSets, TLC

VARIABLES files, chunks, embeddings, edits, last, prev

\* the watcher: the handler's fields, its timer threads and the clock
VARIABLES pending_files, timer, lock, threads, now, accepted, runs

watcher_vars == <<pending_files, timer, lock, threads, now, accepted, runs>>

\* the protocol server: the state of main's loop, its input and its output
VARIABLES running, msg_id, leftover, received, replies, db_file

server_vars == <<running, msg_id, leftover, received, replies, db_file>>

\* the indexer's connection inside index_file (its uncommitted view of the
\* tables) and what a reading connection saw last since the call began
VARIABLES conn, seen

tx_vars == <<conn, seen>>

vars == <<files, chunks, embeddings, edits, last, prev, watcher_vars, server_vars,
          tx_vars>>

(***************************************************************************)
(* Bounds                                                                  *)
(***************************************************************************)
MaxLines == 4
MaxEdits == 2
MaxLimit == 3
MaxId == 4
MaxChunks == 2
MaxEvents == 3
MaxTime == 4
MaxMessages == 2

(***************************************************************************)
(* Program constants                                                       *)
(***************************************************************************)
CHUNK_SIZE == 400
CHUNK_OVERLAP == 80
VECTOR_WEIGHT == 7
TEXT_WEIGHT == 3
CANDIDATE_LIMIT == 50
DEBOUNCE_SECONDS == 2
\* one unit of a similarity or a text score: scores are multiples of 1/Scale
Scale == 3 * 100
\* 0.25 in units of 1/(10*Scale)
MIN_SCORE == (10 * Scale) \div 4

EMBEDDING_MODEL == "nomic-embed-text"

(***************************************************************************)
(* Generic helpers                                                         *)
(***************************************************************************)
Range(s) == {s[i] : i \in 1..Len(s)}

Max(a, b) == IF a >= b THEN a ELSE b

Min(a, b) == IF a <= b THEN a ELSE b

SetMax(S) == CHOOSE x \in S : \A y \in S : y <= x

SetMin(S) == CHOOSE x \in S : \A y \in S : x <= y

SeqsUpTo(S, n) == UNION {[1..k -> S] : k \in 0..n}

(***************************************************************************)
(* The documents.  Line kinds: "E" the empty line, "S" a short line,       *)
(* "B" a long line, "X" a line that alone exceeds the chunk budget.        *)
(***************************************************************************)
LineKinds == {"E", "S", "B", "X"}

WordCount(l) ==
    CASE l = "E" -> 0
      [] l = "S" -> 40
      [] l = "B" -> 280
      [] l = "X" -> 320

\* the keyword the full-text index finds in a line ("" for none)
Keyword(l) ==
    CASE l = "E" -> ""
      [] l = "S" -> "alpha"
      [] l = "B" -> "alpha"
      [] l = "X" -> "beta"

\* the direction the embedding provider gives a text ending in this line
LineVector(l) ==
    CASE l = "E" -> <<0, 0>>
      [] l = "S" -> <<3, 4>>
      [] l = "B" -> <<0, 1>>
      [] l = "X" -> <<4, 3>>

LineCode(l) ==
    CASE l = "E" -> 1
      [] l = "S" -> 2
      [] l = "B" -> 3
      [] l = "X" -> 4

Files == {"MEMORY.md", "memory/a.md"}

NoFile == <<>>

\* every text of at most MaxLines lines: the inputs of the chunker
Texts == {t \in SeqsUpTo(LineKinds, MaxLines) : Len(t) >= 1}

\* the texts the memory files take during ingestion: the empty text, one
\* short line, a text that splits with an overlap, the same lines reordered
Docs == {<<"E">>, <<"S">>, <<"S", "B">>, <<"B", "S">>}

\* the texts of the searched directory: these and an over-budget line
SearchDocs == Docs \cup {<<"X">>}

(***************************************************************************)
(* chunk_text                                                              *)
(***************************************************************************)
estimate_tokens(l) == (WordCount(l) * 13) \div 10

RECURSIVE OverlapLoop(_, _, _, _)
\* the loop over reversed(chunk_lines): j is the position examined next
OverlapLoop(chunk_lines, j, overlap_lines, overlap_tokens) ==
    IF j = 0 THEN [lines |-> overlap_lines, tokens |-> overlap_tokens]
    ELSE LET lt == estimate_tokens(chunk_lines[j])
         IN  IF overlap_tokens + lt > CHUNK_OVERLAP
             THEN [lines |-> overlap_lines, tokens |-> overlap_tokens]
             ELSE OverlapLoop(chunk_lines, j - 1,
                              <<chunk_lines[j]>> \o overlap_lines,
                              overlap_tokens + lt)

\* no line is carried over
Overlap_None(chunk_lines) == [lines |-> <<>>, tokens |-> 0]

Overlap(chunk_lines) == OverlapLoop(chunk_lines, Len(chunk_lines), <<>>, 0)

\* the first of several lines lost from the content
MkChunk_FirstLineLost(chunk_lines, chunk_start, file_path) ==
    [content    |-> IF Len(chunk_lines) > 1 THEN Tail(chunk_lines) ELSE chunk_lines,
     line_start |-> chunk_start + 1,
     line_end   |-> chunk_start + Len(chunk_lines),
     file_path  |-> file_path]

\* the start line recorded as end line
MkChunk_EndIsStart(chunk_lines, chunk_start, file_path) ==
    [content    |-> chunk_lines,
     line_start |-> chunk_start + 1,
     line_end   |-> chunk_start + 1,
     file_path  |-> file_path]

\* an off-by-one in the end line
MkChunk_EndOffByOne(chunk_lines, chunk_start, file_path) ==
    [content    |-> chunk_lines,
     line_start |-> chunk_start + 1,
     line_end   |-> chunk_start + Len(chunk_lines) - 1,
     file_path  |-> file_path]

MkChunk(chunk_lines, chunk_start, file_path) ==
    [content    |-> chunk_lines,
     line_start |-> chunk_start + 1,
     line_end   |-> chunk_start + Len(chunk_lines),
     file_path  |-> file_path]

RECURSIVE ChunkLoop(_, _, _, _, _, _, _)
\* k is the 1-based position of the line examined next (Python's i = k - 1)
ChunkLoop(lines, file_path, k, chunk_lines, chunk_start, current_tokens, out) ==
    IF k > Len(lines)
    THEN IF chunk_lines # <<>>
         THEN Append(out, MkChunk(chunk_lines, chunk_start, file_path))
         ELSE out
    ELSE LET line == lines[k]
             line_tokens == estimate_tokens(line)
         IN  IF current_tokens + line_tokens > CHUNK_SIZE /\ chunk_lines # <<>>
             THEN LET ov == Overlap(chunk_lines)
                  IN  ChunkLoop(lines, file_path, k + 1,
                                ov.lines \o <<line>>,
                                (k - 1) - Len(ov.lines),
                                ov.tokens + line_tokens,
                                Append(out, MkChunk(chunk_lines, chunk_start, file_path)))
             ELSE ChunkLoop(lines, file_path, k + 1,
                            Append(chunk_lines, line),
                            chunk_start,
                            current_tokens + line_tokens,
                            out)

chunk_text(text, file_path) == ChunkLoop(text, file_path, 1, <<>>, 0, 0, <<>>)

(***************************************************************************)
(* The index store: the chunks table and the embeddings table              *)
(***************************************************************************)
RECURSIVE HashLoop(_, _, _)
HashLoop(content, k, h) ==
    IF k > Len(content) THEN h
    ELSE HashLoop(content, k + 1, h * 5 + LineCode(content[k]))

\* a digest of the content: equal contents give equal digests, and the
\* contents of the model give pairwise different ones (no sha256 collision)
content_hash(content) == HashLoop(content, 1, 0)

\* the embedding provider's answer for a chunk's content, when it answers
get_embedding(content) == LineVector(content[Len(content)])

\* struct.pack of one component: 4 bytes, little-endian, two's complement
PackComponent(x) ==
    LET lo == x % 16777216
    IN  <<lo % 256, (lo \div 256) % 256, lo \div 65536, (x \div 16777216) % 256>>

UnpackComponent(b0, b1, b2, b3) ==
    b0 + 256 * b1 + 65536 * b2 + 16777216 * (IF b3 >= 128 THEN b3 - 256 ELSE b3)

RECURSIVE embedding_to_blob(_)
embedding_to_blob(embedding) ==
    IF embedding = <<>> THEN <<>>
    ELSE PackComponent(Head(embedding)) \o embedding_to_blob(Tail(embedding))

blob_to_embedding(blob) ==
    LET n == Len(blob) \div 4
    IN  [i \in 1..n |-> UnpackComponent(blob[4 * i - 3], blob[4 * i - 2],
                                        blob[4 * i - 1], blob[4 * i])]

\* cursor.lastrowid of an INSERT into chunks: SQLite's next rowid
NewChunkId(db) ==
    IF db.chunks = {} THEN 1 ELSE SetMax({c.id : c \in db.chunks}) + 1

InsertChunk(db, chunk_id, chunk, c_hash) ==
    [db EXCEPT !.chunks = @ \cup
        {[id           |-> chunk_id,
          file_path    |-> chunk.file_path,
          line_start   |-> chunk.line_start,
          line_end     |-> chunk.line_end,
          content      |-> chunk.content,
          content_hash |-> c_hash]}]

InsertEmbedding(db, chunk_id, blob) ==
    [db EXCEPT !.embeddings = @ \cup
        {[chunk_id |-> chunk_id, embedding |-> blob, model |-> EMBEDDING_MODEL]}]

\* the rollback of the chunk forgotten
DeleteChunkById_Forgotten(db, chunk_id) == db

DeleteChunkById(db, chunk_id) ==
    [db EXCEPT !.chunks = {c \in @ : c.id # chunk_id}]

\* the force branch skipped
DeleteChunksForFile_Skipped(db, rel_path) == db

\* the force branch of index_file
DeleteChunksForFile(db, rel_path) ==
    LET ids == {c.id : c \in {d \in db.chunks : d.file_path = rel_path}}
    IN  [chunks     |-> {c \in db.chunks : c.file_path # rel_path},
         embeddings |-> {e \in db.embeddings : e.chunk_id \notin ids}]

\* the lookup compares the wrong column with the start line
Existing_WrongColumn(db, rel_path, line_start, c_hash) ==
    {c \in db.chunks : /\ c.file_path = rel_path
                       /\ c.line_end = line_start
                       /\ c.content_hash = c_hash}

\* the lookup never finds the chunk
Existing_Never(db, rel_path, line_start, c_hash) == {}

Existing(db, rel_path, line_start, c_hash) ==
    {c \in db.chunks : /\ c.file_path = rel_path
                       /\ c.line_start = line_start
                       /\ c.content_hash = c_hash}

\* the loop gives up after the first embedding failure
IndexStep_StopsAfterFailure(st, chunk, k, fails) ==
    LET c_hash == content_hash(chunk.content)
    IN  IF st.failed > 0 THEN st
        ELSE IF Existing(st.db, chunk.file_path, chunk.line_start, c_hash) # {}
        THEN [st EXCEPT !.skipped = @ + 1]
        ELSE LET chunk_id == NewChunkId(st.db)
                 db1 == InsertChunk(st.db, chunk_id, chunk, c_hash)
             IN  IF k \in fails
                 THEN [st EXCEPT !.db = DeleteChunkById(db1, chunk_id),
                                 !.failed = @ + 1]
                 ELSE [st EXCEPT !.db = InsertEmbedding(db1, chunk_id,
                                   embedding_to_blob(get_embedding(chunk.content))),
                                 !.added = @ + 1]

\* one pass of the body of "for chunk in chunk_text(text, rel_path)";
\* fails is the set of positions whose embedding request raises
IndexStep(st, chunk, k, fails) ==
    LET c_hash == content_hash(chunk.content)
    IN  IF Existing(st.db, chunk.file_path, chunk.line_start, c_hash) # {}
        THEN [st EXCEPT !.skipped = @ + 1]
        ELSE LET chunk_id == NewChunkId(st.db)
                 db1 == InsertChunk(st.db, chunk_id, chunk, c_hash)
             IN  IF k \in fails
                 THEN [st EXCEPT !.db = DeleteChunkById(db1, chunk_id),
                                 !.failed = @ + 1]
                 ELSE [st EXCEPT !.db = InsertEmbedding(db1, chunk_id,
                                   embedding_to_blob(get_embedding(chunk.content))),
                                 !.added = @ + 1]

RECURSIVE IndexLoop(_, _, _, _)
IndexLoop(cs, k, st, fails) ==
    IF k > Len(cs) THEN st
    ELSE IndexLoop(cs, k + 1, IndexStep(st, cs[k], k, fails), fails)

\* the force branch taken whatever force is
index_file_AlwaysForce(db, rel_path, text, force, fails) ==
    IndexLoop(chunk_text(text, rel_path), 1,
              [db |-> DeleteChunksForFile(db, rel_path),
               added |-> 0, skipped |-> 0, failed |-> 0],
              fails)

\* index_file on an existing file: the state of the store at its commit
\* and the counters it prints
index_file(db, rel_path, text, force, fails) ==
    LET db0 == IF force THEN DeleteChunksForFile(db, rel_path) ELSE db
    IN  IndexLoop(chunk_text(text, rel_path), 1,
                  [db |-> db0, added |-> 0, skipped |-> 0, failed |-> 0],
                  fails)

(***************************************************************************)
(* The keyword index.  chunks_fts is the external-content FTS5 table the   *)
(* schema keeps in step with the chunks table; bm25 is SQLite's ranking    *)
(* function (negative, more negative is better), modelled as minus the     *)
(* number of lines of the chunk that hold the term.                        *)
(***************************************************************************)
Words == {"alpha", "alpha*", "(alpha)", "\"alpha"}

\* any(c in word for c in '+-*()')
HasSpecial(word) == word \in {"alpha*", "(alpha)"}

\* the word holds a double quote, which the escaping leaves alone
HasQuote(word) == word = "\"alpha"

\* the term the FTS5 tokenizer reads in a well-formed token
Term(word) == IF HasQuote(word) THEN "" ELSE "alpha"

\* a query is the sequence query.split() of its words
Queries == {<<w>> : w \in Words}

\* the embedding provider's answer for a query, when it answers
query_embedding(query) ==
    CASE query = <<"alpha">>   -> <<3, 4>>
      [] query = <<"alpha*">>  -> <<1, 0>>
      [] query = <<"(alpha)">> -> <<0, -1>>
      [] OTHER                 -> <<1, 0>>

chunks_fts(db) == {[rowid |-> c.id, content |-> c.content] : c \in db.chunks}

\* the escaping of text_search: a word with a special character is quoted
FtsQuery(query) ==
    [i \in 1..Len(query) |-> [text |-> query[i], quoted |-> HasSpecial(query[i])]]

\* FTS5 rejects the query (sqlite3.OperationalError: fts5: syntax error)
FtsSyntaxError(fts_query) ==
    \E i \in 1..Len(fts_query) : HasQuote(fts_query[i].text)

TermCount(content, term) ==
    Cardinality({i \in 1..Len(content) : Keyword(content[i]) = term})

\* the rows of "WHERE chunks_fts MATCH ?" with their bm25 score
FtsMatch(db, fts_query) ==
    {[rowid |-> r.rowid, score |-> 0 - TermCount(r.content, Term(fts_query[1].text))] :
        r \in {x \in chunks_fts(db) :
                  \A i \in 1..Len(fts_query) :
                      TermCount(x.content, Term(fts_query[i].text)) > 0}}

\* "ORDER BY key LIMIT n" and "sorted(...)[:n]" as sets: the n best of S
\* under key, any of them when there are ties (best is the largest key)
TopSets(S, key, n) ==
    {T \in SUBSET S : /\ Cardinality(T) = Min(n, Cardinality(S))
                      /\ \A x \in T, y \in S \ T : key[x] >= key[y]}

\* the exception leaves text_search
OnOperationalError_Propagates == {[raised |-> TRUE, scores |-> <<>>]}

\* "except sqlite3.OperationalError: return {}"
OnOperationalError == {[raised |-> FALSE, scores |-> <<>>]}

\* the scores divided by the best one, the worst not subtracted
NormalizeRows_ByMax(rows) ==
    LET Neg(r) == 0 - r.score
        max_score == SetMax({Neg(r) : r \in rows})
        RowOf(cid) == CHOOSE r \in rows : r.rowid = cid
    IN  [cid \in {r.rowid : r \in rows} |->
            (Neg(RowOf(cid)) * Scale) \div max_score]

\* the normalisation of the rows' scores to 0..Scale
NormalizeRows(rows) ==
    LET Neg(r) == 0 - r.score
        max_score == SetMax({Neg(r) : r \in rows})
        min_score == SetMin({Neg(r) : r \in rows})
        range_score == IF max_score # min_score THEN max_score - min_score ELSE 1
        RowOf(cid) == CHOOSE r \in rows : r.rowid = cid
    IN  [cid \in {r.rowid : r \in rows} |->
            ((Neg(RowOf(cid)) - min_score) * Scale) \div range_score]

\* text_search: [raised, scores], one for each choice among tied rows
text_search(db, query, limit) ==
    LET fts_query == FtsQuery(query)
        Neg(r) == 0 - r.score
        matched == FtsMatch(db, fts_query)
    IN  IF FtsSyntaxError(fts_query)
        THEN OnOperationalError
        ELSE {[raised |-> FALSE,
               scores |-> IF rows = {} THEN <<>> ELSE NormalizeRows(rows)] :
                 rows \in TopSets(matched, [r \in matched |-> Neg(r)], limit)}

(***************************************************************************)
(* The vector path                                                         *)
(***************************************************************************)
RECURSIVE DotLoop(_, _, _)
DotLoop(a, b, k) ==
    IF k > Min(Len(a), Len(b)) THEN 0 ELSE a[k] * b[k] + DotLoop(a, b, k + 1)

\* math.sqrt on the sums of squares of the model's vectors, which are squares
Sqrt(n) == CHOOSE r \in 0..n : r * r <= n /\ n < (r + 1) * (r + 1)

cosine_similarity(a, b) ==
    LET dot_product == DotLoop(a, b, 1)
        norm_a == Sqrt(DotLoop(a, a, 1))
        norm_b == Sqrt(DotLoop(b, b, 1))
    IN  IF norm_a = 0 \/ norm_b = 0 THEN 0
        ELSE (Scale * dot_product) \div (norm_a * norm_b)

\* every scored chunk returned, the limit ignored
vector_search_Unbounded(db, query_vec, limit) ==
    LET rows == {e \in db.embeddings : \E c \in db.chunks : c.id = e.chunk_id}
        Sim(e) == cosine_similarity(query_vec, blob_to_embedding(e.embedding))
        RowOf(cid) == CHOOSE e \in rows : e.chunk_id = cid
    IN  {[cid \in {e.chunk_id : e \in rows} |-> Sim(RowOf(cid))]}

\* vector_search: the possible dicts chunk_id -> similarity
vector_search(db, query_vec, limit) ==
    LET rows == {e \in db.embeddings : \E c \in db.chunks : c.id = e.chunk_id}
        Sim(e) == cosine_similarity(query_vec, blob_to_embedding(e.embedding))
        RowOf(T, cid) == CHOOSE e \in T : e.chunk_id = cid
    IN  {[cid \in {e.chunk_id : e \in T} |-> Sim(RowOf(T, cid))] :
            T \in TopSets(rows, [e \in rows |-> Sim(e)], limit)}

(***************************************************************************)
(* hybrid_search                                                           *)
(***************************************************************************)
Get(scores, cid) == IF cid \in DOMAIN scores THEN scores[cid] ELSE 0

\* the two weights exchanged
FinalScore_Swapped(v_score, t_score, keyword_only) ==
    IF keyword_only THEN 10 * t_score
    ELSE TEXT_WEIGHT * v_score + VECTOR_WEIGHT * t_score

\* final_score in units of 1/(10*Scale)
FinalScore(v_score, t_score, keyword_only) ==
    IF keyword_only THEN 10 * t_score
    ELSE VECTOR_WEIGHT * v_score + TEXT_WEIGHT * t_score

\* the intersection taken for the union
AllChunkIds_Intersection(vector_scores, text_scores) ==
    DOMAIN vector_scores \cap DOMAIN text_scores

AllChunkIds(vector_scores, text_scores) ==
    DOMAIN vector_scores \cup DOMAIN text_scores

CombinedScores(vector_scores, text_scores, keyword_only) ==
    [cid \in AllChunkIds(vector_scores, text_scores) |->
        LET v_score == Get(vector_scores, cid)
            t_score == Get(text_scores, cid)
        IN  [final |-> FinalScore(v_score, t_score, keyword_only),
             v |-> v_score, t |-> t_score]]

\* the threshold not applied
Filtered_NoThreshold(combined, min_score) == DOMAIN combined

Filtered(combined, min_score) ==
    {cid \in DOMAIN combined : combined[cid].final >= min_score}

RECURSIVE SortedDesc(_, _)
\* the orders sorted(..., reverse=True) can give the ids of S: by falling
\* final score, tied ids in the order the dict happens to hold them
SortedDesc(S, combined) ==
    IF S = {} THEN {<<>>}
    ELSE LET top == SetMax({combined[c].final : c \in S})
         IN  UNION {{<<c>> \o rest : rest \in SortedDesc(S \ {c}, combined)} :
                       c \in {x \in S : combined[x].final = top}}

Truncate(seq, limit) == SubSeq(seq, 1, Min(limit, Len(seq)))

\* round(x, 3) of x = num/den, in thousandths
Round3(num, den) == (2000 * num + den) \div (2 * den)

\* the "Fetch chunk details" loop; rounded is the mcp_server variant
RECURSIVE FetchRows(_, _, _, _)
FetchRows(db, ids, combined, rounded) ==
    IF ids = <<>> THEN <<>>
    ELSE LET cid == Head(ids)
             rows == {c \in db.chunks : c.id = cid}
             sc == combined[cid]
             rest == FetchRows(db, Tail(ids), combined, rounded)
         IN  IF rows = {} THEN rest
             ELSE LET row == CHOOSE c \in rows : TRUE
                  IN  <<[chunk_id     |-> cid,
                         file_path    |-> row.file_path,
                         line_start   |-> row.line_start,
                         line_end     |-> row.line_end,
                         content      |-> row.content,
                         final        |-> sc.final,
                         score        |-> IF rounded THEN Round3(sc.final, 10 * Scale)
                                          ELSE sc.final,
                         vector_score |-> IF rounded THEN Round3(sc.v, Scale) ELSE sc.v,
                         text_score   |-> IF rounded THEN Round3(sc.t, Scale) ELSE sc.t]>>
                      \o rest

\* the part of hybrid_search after the two score maps are known; called
\* tells whether the embedding provider was asked
Fuse(db, text_scores, vector_scores, called, limit, min_score, keyword_only, rounded) ==
    LET combined == CombinedScores(vector_scores, text_scores, keyword_only)
    IN  {[raised        |-> FALSE,
          embed_called  |-> called,
          text_scores   |-> text_scores,
          vector_scores |-> vector_scores,
          combined      |-> combined,
          results       |-> FetchRows(db, Truncate(order, limit), combined, rounded)] :
            order \in SortedDesc(Filtered(combined, min_score), combined)}

\* the exception leaves hybrid_search
Raised(called) ==
    [raised |-> TRUE, embed_called |-> called, text_scores |-> <<>>,
     vector_scores |-> <<>>, combined |-> <<>>, results |-> <<>>]

\* the vector scores of search.py: none asked for, an exception, or a dict
CliVectorScores(db, query, keyword_only, embed_ok) ==
    IF keyword_only THEN {[raised |-> FALSE, called |-> FALSE, scores |-> <<>>]}
    ELSE IF ~embed_ok THEN {[raised |-> TRUE, called |-> TRUE, scores |-> <<>>]}
    ELSE {[raised |-> FALSE, called |-> TRUE, scores |-> vs] :
             vs \in vector_search(db, query_embedding(query), CANDIDATE_LIMIT)}

\* the vector scores of mcp_server.py: "except Exception: vector_scores = {}"
McpVectorScores(db, query, embed_ok) ==
    IF ~embed_ok THEN {[raised |-> FALSE, called |-> TRUE, scores |-> <<>>]}
    ELSE {[raised |-> FALSE, called |-> TRUE, scores |-> vs] :
             vs \in vector_search(db, query_embedding(query), CANDIDATE_LIMIT)}

\* hybrid_search of search.py: the outcomes it can have
hybrid_search(db, query, limit, min_score, keyword_only, embed_ok) ==
    UNION {UNION {IF ts.raised \/ vs.raised THEN {Raised(vs.called)}
                  ELSE Fuse(db, ts.scores, vs.scores, vs.called, limit, min_score,
                            keyword_only, FALSE) :
                     vs \in CliVectorScores(db, query, keyword_only, embed_ok)} :
              ts \in text_search(db, query, CANDIDATE_LIMIT)}

\* hybrid_search of mcp_server.py
mcp_hybrid_search(db, query, limit, min_score, embed_ok) ==
    UNION {UNION {IF ts.raised \/ vs.raised THEN {Raised(vs.called)}
                  ELSE Fuse(db, ts.scores, vs.scores, vs.called, limit, min_score,
                            FALSE, TRUE) :
                     vs \in McpVectorScores(db, query, embed_ok)} :
              ts \in text_search(db, query, CANDIDATE_LIMIT)}

(***************************************************************************)
(* index_all                                                               *)
(***************************************************************************)
\* MEMORY.md first, then sorted(MEMORY_DIR.glob("*.md"))
FileOrder == <<"MEMORY.md", "memory/a.md">>

RECURSIVE IndexAllLoop(_, _, _, _, _)
IndexAllLoop(db, fs, k, force, fails) ==
    IF k > Len(FileOrder) THEN db
    ELSE LET f == FileOrder[k]
         IN  IndexAllLoop(IF fs[f] = NoFile THEN db
                          ELSE index_file(db, f, fs[f], force, fails[f]).db,
                          fs, k + 1, force, fails)

\* index_all: fs is the directory, fails[f] the failing positions in file f
index_all(db, fs, force, fails) == IndexAllLoop(db, fs, 1, force, fails)

(***************************************************************************)
(* The state machine.  files is the memory directory on disk, chunks and   *)
(* embeddings the committed tables, last the record of the operation that  *)
(* ran last and prev the ingestion run before it, if the operation before  *)
(* it was one.                                                             *)
(***************************************************************************)
NoRun == [op |-> "none"]

\* MemoryFileHandler.__init__, before any event: no timer thread exists
None == 0

\* main of mcp_server.py before its first read_message: msg_id is not
\* bound yet; the database file exists
Unbound == 0 - 1

ServerIdle ==
    /\ running = TRUE
    /\ msg_id = Unbound
    /\ leftover = FALSE
    /\ received = 0
    /\ replies = <<>>
    /\ db_file = TRUE

\* nothing has been read; no index_file call is under way
NoRead == [op |-> "none"]

Closed == [pc |-> "idle"]

TxIdle ==
    /\ conn = Closed
    /\ seen = NoRead

WatcherIdle ==
    /\ pending_files = {}
    /\ timer = None
    /\ lock = "free"
    /\ threads = <<>>
    /\ now = 0
    /\ accepted = <<>>
    /\ runs = <<>>

Db == [chunks |-> chunks, embeddings |-> embeddings]

Init ==
    /\ files = [f \in Files |-> NoFile]
    /\ chunks = {}
    /\ embeddings = {}
    /\ edits = 0
    /\ last = NoRun
    /\ prev = NoRun
    /\ WatcherIdle
    /\ ServerIdle
    /\ TxIdle

\* what the second of two runs in a row on file f needs to know of the first
PrevRun(f) ==
    IF last.op = "index" /\ last.file = f /\ last.found
    THEN [op |-> "index", force |-> last.force, clean |-> last.failed = 0]
    ELSE NoRun

\* the user (or memory_write) replaces the text of a file
WriteFile(f, t) ==
    /\ edits < MaxEdits
    /\ files[f] # t
    /\ files' = [files EXCEPT ![f] = t]
    /\ edits' = edits + 1
    /\ last' = [op |-> "write", file |-> f]
    /\ prev' = NoRun
    /\ UNCHANGED <<chunks, embeddings, watcher_vars, server_vars, tx_vars>>

RemoveFile(f) ==
    /\ edits < MaxEdits
    /\ files[f] # NoFile
    /\ files' = [files EXCEPT ![f] = NoFile]
    /\ edits' = edits + 1
    /\ last' = [op |-> "remove", file |-> f]
    /\ prev' = NoRun
    /\ UNCHANGED <<chunks, embeddings, watcher_vars, server_vars, tx_vars>>

\* index_file(conn, file_path, force), commit included
IndexFile(f, force, fails) ==
    /\ IF files[f] = NoFile
       THEN /\ fails = {}
            /\ last' = [op |-> "index", file |-> f, force |-> force,
                        found |-> FALSE,
                        added |-> 0, skipped |-> 0, failed |-> 0,
                        before |-> Cardinality(chunks)]
            /\ UNCHANGED <<chunks, embeddings>>
       ELSE /\ fails \subseteq 1..Len(chunk_text(files[f], f))
            /\ \E r \in {index_file(Db, f, files[f], force, fails)} :
                /\ \A c \in r.db.chunks : c.id <= MaxId
                /\ chunks' = r.db.chunks
                /\ embeddings' = r.db.embeddings
                /\ last' = [op |-> "index", file |-> f, force |-> force,
                            found |-> TRUE,
                            added |-> r.added, skipped |-> r.skipped,
                            failed |-> r.failed,
                            before |-> Cardinality(chunks)]
    /\ prev' = PrevRun(f)
    /\ UNCHANGED <<files, edits, watcher_vars, server_vars, tx_vars>>

Next ==
    \/ \E f \in Files, t \in Docs : WriteFile(f, t)
    \/ \E f \in Files : RemoveFile(f)
    \/ \E f \in Files, force \in BOOLEAN, fails \in SUBSET (1..MaxChunks) :
            IndexFile(f, force, fails)

Spec == Init /\ [][Next]_vars

\* index_all(conn, force), every commit included; fails[f] holds the
\* positions in file f at which the embedding provider raises
IndexAll(force, fails) ==
    /\ \A f \in Files :
           fails[f] \subseteq (IF files[f] = NoFile THEN {}
                               ELSE 1..Len(chunk_text(files[f], f)))
    /\ \E db1 \in {index_all(Db, files, force, fails)} :
           /\ \A c \in db1.chunks : c.id <= MaxId
           /\ chunks' = db1.chunks
           /\ embeddings' = db1.embeddings
    /\ last' = [op |-> "index_all", force |-> force,
                clean |-> \A f \in Files : fails[f] = {},
                before |-> Cardinality(chunks)]
    /\ prev' = NoRun
    /\ UNCHANGED <<files, edits, watcher_vars, server_vars, tx_vars>>

RebuildNext ==
    \/ \E f \in Files, t \in Docs : WriteFile(f, t)
    \/ \E f \in Files : RemoveFile(f)
    \/ \E force \in BOOLEAN, fails \in [Files -> SUBSET (1..MaxChunks)] :
            IndexAll(force, fails)

\* the directory is edited and indexed as a whole
RebuildSpec == Init /\ [][RebuildNext]_vars

(***************************************************************************)
(* The chunker specification: chunk_text is applied to every text of at    *)
(* most MaxLines lines.                                                    *)
(***************************************************************************)
ChunkText(t) ==
    /\ last' = [op |-> "chunk", text |-> t, out |-> chunk_text(t, "MEMORY.md")]
    /\ UNCHANGED <<files, chunks, embeddings, edits, prev, watcher_vars,
                   server_vars, tx_vars>>

ChunkNext == \E t \in Texts : ChunkText(t)

ChunkSpec == Init /\ [][ChunkNext]_vars

(***************************************************************************)
(* The search specification: the store holds what index_all stored for a   *)
(* directory, and queries are run against it.                              *)
(***************************************************************************)
EmptyDb == [chunks |-> {}, embeddings |-> {}]

MinScores == {0, MIN_SCORE}

SearchInit ==
    \E fs \in [Files -> SearchDocs \cup {NoFile}] :
        LET db1 == index_all(EmptyDb, fs, FALSE, [f \in Files |-> {}])
        IN  /\ files = fs
            /\ chunks = db1.chunks
            /\ embeddings = db1.embeddings
            /\ edits = 0
            /\ last = NoRun
            /\ prev = NoRun
            /\ WatcherIdle
            /\ ServerIdle
            /\ TxIdle

SearchRecord(impl, query, limit, min_score, keyword_only, embed_ok, out) ==
    [op |-> "search", impl |-> impl, query |-> query, limit |-> limit,
     min_score |-> min_score, keyword_only |-> keyword_only,
     embed_ok |-> embed_ok, out |-> out]

\* search.py: hybrid_search(conn, query, limit, min_score, keyword_only)
SearchCli(query, limit, min_score, keyword_only, embed_ok) ==
    /\ keyword_only => embed_ok
    /\ \E out \in hybrid_search(Db, query, limit, min_score, keyword_only, embed_ok) :
           last' = SearchRecord("cli", query, limit, min_score, keyword_only,
                                embed_ok, out)
    /\ prev' = NoRun
    /\ UNCHANGED <<files, chunks, embeddings, edits, watcher_vars, server_vars, tx_vars>>

\* mcp_server.py: hybrid_search(conn, query, limit, min_score)
SearchMcp(query, limit, min_score, embed_ok) ==
    /\ \E out \in mcp_hybrid_search(Db, query, limit, min_score, embed_ok) :
           last' = SearchRecord("mcp", query, limit, min_score, FALSE,
                                embed_ok, out)
    /\ prev' = NoRun
    /\ UNCHANGED <<files, chunks, embeddings, edits, watcher_vars, server_vars, tx_vars>>

SearchNext ==
    \/ \E query \in Queries, limit \in 0..MaxLimit, min_score \in MinScores,
          keyword_only \in BOOLEAN, embed_ok \in BOOLEAN :
            SearchCli(query, limit, min_score, keyword_only, embed_ok)
    \/ \E query \in Queries, limit \in 0..MaxLimit, min_score \in MinScores,
          embed_ok \in BOOLEAN :
            SearchMcp(query, limit, min_score, embed_ok)

SearchSpec == SearchInit /\ [][SearchNext]_vars

(***************************************************************************)
(* The candidate specification: text_search and vector_search are run on   *)
(* the stores of the search specification, with every limit.               *)
(***************************************************************************)
\* the two candidate searches of hybrid_search, with the limit they are
\* given; matched holds the rows of the keyword index that match the query
CandidateSearch(query, limit) ==
    /\ \E ts \in text_search(Db, query, limit),
          vs \in vector_search(Db, query_embedding(query), limit) :
           last' = [op |-> "candidates", query |-> query, limit |-> limit,
                    text |-> ts, vector |-> vs,
                    matched |-> IF FtsSyntaxError(FtsQuery(query)) THEN {}
                                ELSE FtsMatch(Db, FtsQuery(query))]
    /\ prev' = NoRun
    /\ UNCHANGED <<files, chunks, embeddings, edits, watcher_vars, server_vars,
                   tx_vars>>

CandidateNext ==
    \E query \in Queries, limit \in 0..MaxLimit : CandidateSearch(query, limit)

CandidateSpec == SearchInit /\ [][CandidateNext]_vars

(***************************************************************************)
(* The watcher.  One thread dispatches the filesystem events; every        *)
(* threading.Timer is a thread of its own that waits for the delay, tests  *)
(* its finished flag and then calls _run_index.  A thread is "armed" while *)
(* it waits, "cancelled" once cancel() set the flag in time, "fired" once  *)
(* it passed the test of the flag (cancel() no longer stops it),           *)
(* "indexing" while its subprocess runs and "done" afterwards.  The clock  *)
(* now counts seconds.                                                     *)
(***************************************************************************)
EventKinds == {"modified", "created", "deleted"}

WatchedPaths == {"MEMORY.md", "memory/a.md", "memory/a.txt", "README.md"}

Suffix(path) == IF path = "memory/a.txt" THEN ".txt" ELSE ".md"

\* MEMORY_DIR in p.parents or p.parent == MEMORY_DIR
UnderMemoryDir(path) == path \in {"memory/a.md", "memory/a.txt"}

\* the test of the suffix left out
ShouldHandle_AnySuffix(path) == path = "MEMORY.md" \/ UnderMemoryDir(path)

\* _should_handle
ShouldHandle(path) ==
    IF Suffix(path) # ".md" THEN FALSE
    ELSE IF path = "MEMORY.md" THEN TRUE
    ELSE UnderMemoryDir(path)

\* the store and directory the watcher runs on: both files exist, nothing
\* is indexed yet
WatcherInit ==
    /\ files = [f \in Files |-> IF f = "MEMORY.md" THEN <<"S">> ELSE <<"S", "B">>]
    /\ chunks = {}
    /\ embeddings = {}
    /\ edits = 0
    /\ last = NoRun
    /\ prev = NoRun
    /\ WatcherIdle
    /\ ServerIdle
    /\ TxIdle

\* Timer.cancel(): sets the finished flag, which stops a thread that has
\* not tested it yet
Cancel(ths, t) ==
    IF ths[t].pc = "armed" THEN [ths EXCEPT ![t].pc = "cancelled"] ELSE ths

\* threading.Timer(DEBOUNCE_SECONDS, self._run_index).start()
StartTimer(ths) ==
    Append(ths, [pc |-> "armed", deadline |-> now + DEBOUNCE_SECONDS, files |-> {}])

\* on_modified / on_created up to "self.pending_files.add(file_path)" of
\* _schedule_index, the lock taken; any other event is dropped
Handle(kind, is_directory, path) ==
    /\ lock = "free"
    /\ IF kind \in {"modified", "created"} /\ ~is_directory /\ ShouldHandle(path)
       THEN /\ Len(accepted) < MaxEvents
            /\ now + DEBOUNCE_SECONDS <= MaxTime
            /\ lock' = "event"
            /\ pending_files' = pending_files \cup {path}
            /\ accepted' = Append(accepted, [path |-> path, time |-> now])
            /\ UNCHANGED <<timer, threads, now, runs>>
       ELSE UNCHANGED watcher_vars

OnEvent(kind, is_directory, path) ==
    /\ Handle(kind, is_directory, path)
    /\ UNCHANGED <<files, chunks, embeddings, edits, last, prev, server_vars, tx_vars>>

\* the same, the event that the observer thread delivered being recorded
Dispatch(kind, is_directory, path) ==
    /\ Handle(kind, is_directory, path)
    /\ last' = [op |-> "event", kind |-> kind, is_directory |-> is_directory,
                path |-> path]
    /\ UNCHANGED <<files, chunks, embeddings, edits, prev, server_vars, tx_vars>>

\* the rest of _schedule_index: cancel the timer, start a new one, release
ScheduleIndex ==
    /\ lock = "event"
    /\ LET ths == IF timer # None THEN Cancel(threads, timer) ELSE threads
       IN  /\ threads' = StartTimer(ths)
           /\ timer' = Len(ths) + 1
    /\ lock' = "free"
    /\ UNCHANGED <<pending_files, now, accepted, runs>>
    /\ UNCHANGED <<files, chunks, embeddings, edits, last, prev, server_vars, tx_vars>>

\* Timer.run: the wait is over and the finished flag is not set
TimerFire(t) ==
    /\ threads[t].pc = "armed"
    /\ now >= threads[t].deadline
    /\ threads' = [threads EXCEPT ![t].pc = "fired"]
    /\ UNCHANGED <<pending_files, timer, lock, now, accepted, runs>>
    /\ UNCHANGED <<files, chunks, embeddings, edits, last, prev, server_vars, tx_vars>>

\* the set cleared before it is copied
TakePending_ClearedFirst(pending) == {}

\* files = list(self.pending_files)
TakePending(pending) == pending

\* the with block extended over subprocess.run
WithExit_AfterSubprocess(taken) == IF taken = {} THEN "free" ELSE "timer"

\* the end of "with self.lock:" in _run_index, before "if not files"
WithExit(taken) == "free"

\* _run_index: the block under the lock, "if not files: return", and the
\* launch of the subprocess
RunIndex(t) ==
    /\ threads[t].pc = "fired"
    /\ lock = "free"
    /\ pending_files' = {}
    /\ timer' = None
    /\ LET taken == TakePending(pending_files)
       IN  IF taken = {}
           THEN /\ threads' = [threads EXCEPT ![t].pc = "done"]
                /\ UNCHANGED runs
           ELSE /\ threads' = [threads EXCEPT ![t].pc = "indexing",
                                              ![t].files = taken]
                /\ runs' = Append(runs, [files |-> taken, start |-> now,
                                         thread |-> t])
    /\ lock' = WithExit(TakePending(pending_files))
    /\ UNCHANGED <<now, accepted>>
    /\ UNCHANGED <<files, chunks, embeddings, edits, last, prev, server_vars, tx_vars>>

\* list(self.pending_files): the paths in any order
Orders(S) ==
    {o \in [1..Cardinality(S) -> S] : \A i, j \in DOMAIN o : o[i] = o[j] => i = j}

RECURSIVE IndexPaths(_, _, _)
\* index.py main with file arguments: index_file on each in turn
IndexPaths(db, paths, k) ==
    IF k > Len(paths) THEN db
    ELSE LET f == paths[k]
         IN  IndexPaths(IF files[f] # NoFile
                        THEN index_file(db, f, files[f], FALSE, {}).db
                        ELSE db,
                        paths, k + 1)

\* subprocess.run returns: the indexer has indexed the files of the run
SubprocessExit(t) ==
    /\ threads[t].pc = "indexing"
    /\ \E db1 \in {IndexPaths(Db, o, 1) : o \in Orders(threads[t].files)} :
           /\ chunks' = db1.chunks
           /\ embeddings' = db1.embeddings
    /\ threads' = [threads EXCEPT ![t].pc = "done"]
    /\ UNCHANGED <<pending_files, timer, lock, now, accepted, runs>>
    /\ UNCHANGED <<files, edits, last, prev, server_vars, tx_vars>>

\* a second passes
Tick ==
    /\ now < MaxTime
    /\ lock = "event" => now + 1 + DEBOUNCE_SECONDS <= MaxTime
    /\ now' = now + 1
    /\ UNCHANGED <<pending_files, timer, lock, threads, accepted, runs>>
    /\ UNCHANGED <<files, chunks, embeddings, edits, last, prev, server_vars, tx_vars>>

WatcherNext ==
    \/ \E kind \in EventKinds, is_directory \in BOOLEAN, path \in WatchedPaths :
            OnEvent(kind, is_directory, path)
    \/ ScheduleIndex
    \/ \E t \in 1..Len(threads) : TimerFire(t)
    \/ \E t \in 1..Len(threads) : RunIndex(t)
    \/ \E t \in 1..Len(threads) : SubprocessExit(t)
    \/ Tick

WatcherSpec == WatcherInit /\ [][WatcherNext]_vars

\* the threads are scheduled and the clock advances: the event thread
\* leaves _schedule_index, a timer whose delay is over fires, and a fired
\* timer enters _run_index once the lock is free (nothing is assumed of
\* how long the indexer subprocess runs)
WatcherFairness ==
    /\ WF_vars(ScheduleIndex)
    /\ WF_vars(Tick)
    /\ WF_vars(\E t \in 1..Len(threads) : TimerFire(t))
    /\ WF_vars(\E t \in 1..Len(threads) : RunIndex(t))

WatcherLiveSpec == WatcherSpec /\ WatcherFairness

EventNext ==
    \/ \E kind \in EventKinds, is_directory \in BOOLEAN, path \in WatchedPaths :
            Dispatch(kind, is_directory, path)
    \/ ScheduleIndex
    \/ \E t \in 1..Len(threads) : TimerFire(t)
    \/ \E t \in 1..Len(threads) : RunIndex(t)
    \/ \E t \in 1..Len(threads) : SubprocessExit(t)
    \/ Tick

\* the watcher is started DEBOUNCE_SECONDS before the end of the period
\* under observation: the clock's origin is arbitrary
EventInit ==
    /\ files = [f \in Files |-> IF f = "MEMORY.md" THEN <<"S">> ELSE <<"S", "B">>]
    /\ chunks = {}
    /\ embeddings = {}
    /\ edits = 0
    /\ last = NoRun
    /\ prev = NoRun
    /\ pending_files = {}
    /\ timer = None
    /\ lock = "free"
    /\ threads = <<>>
    /\ now = MaxTime - DEBOUNCE_SECONDS
    /\ accepted = <<>>
    /\ runs = <<>>
    /\ ServerIdle
    /\ TxIdle

\* the watcher, with the delivered events on record
EventSpec == EventInit /\ [][EventNext]_vars

\* the directories that were indexed before an edit gave the files their
\* current text: a line has since been deleted from MEMORY.md, or the
\* lines of memory/a.md have been reordered
EarlierDirs ==
    {[f \in Files |-> <<"S", "B">>],
     [f \in Files |-> IF f = "MEMORY.md" THEN <<"S">> ELSE <<"B", "S">>]}

\* the watcher starts on a store that index_all built before the edit
EditedInit ==
    \E fs0 \in EarlierDirs :
        LET db1 == index_all(EmptyDb, fs0, FALSE, [f \in Files |-> {}])
        IN  /\ files = [f \in Files |->
                           IF f = "MEMORY.md" THEN <<"S">> ELSE <<"S", "B">>]
            /\ chunks = db1.chunks
            /\ embeddings = db1.embeddings
            /\ edits = 0
            /\ last = NoRun
            /\ prev = NoRun
            /\ WatcherIdle
            /\ ServerIdle
            /\ TxIdle

EditedSpec == EditedInit /\ [][WatcherNext]_vars

(***************************************************************************)
(* The protocol server (mcp_server.py).  A tool's arguments are a dict: a  *)
(* function from the keys present to their values.  A tool result is a     *)
(* dict as well, and "error" in result is "error" \in DOMAIN result.       *)
(***************************************************************************)
DEFAULT_LIMIT == 6

\* arguments.get(key, default)
ArgGet(arguments, key, default) ==
    IF key \in DOMAIN arguments THEN arguments[key] ELSE default

\* what a tool did: its result (or that it raised) and the directory, the
\* store and the database file it leaves
ToolOutcome(raised, result, fs, db, dbf) ==
    [raised |-> raised, result |-> result, fs |-> fs, db |-> db, db_file |-> dbf]

\* the handler raised: result holds str(e)
ToolRaised == ToolOutcome(TRUE, "'str' object has no attribute 'get'", files, Db, db_file)

ToolReturns(result) == ToolOutcome(FALSE, result, files, Db, db_file)

\* a slice bound of Python: a negative one counts from the end, and both
\* are cut to 0..len
SliceBound(len, k) == IF k < 0 THEN Max(0, len + k) ELSE Min(k, len)

\* seq[start:end] of Python
PySlice(seq, start, end) ==
    LET lo == SliceBound(Len(seq), start)
        hi == SliceBound(Len(seq), end)
    IN  IF lo >= hi THEN <<>> ELSE SubSeq(seq, lo + 1, hi)

\* '\n'.join(lines) as a text: the join of no line is the empty text
Join(lines) == IF lines = <<>> THEN <<"E">> ELSE lines

\* the window starting at from_line itself, also when it is below 1
WindowStart_Unclamped(from_line) == from_line - 1

\* start = max(0, from_line - 1)
WindowStart(from_line) == Max(0, WindowStart_Unclamped(from_line))

\* tool_memory_get
tool_memory_get(arguments) ==
    LET path == ArgGet(arguments, "path", "")
        from_line == ArgGet(arguments, "from", 1)
        lines == ArgGet(arguments, "lines", 50)
    IN  IF path = "" THEN ToolReturns([error |-> "Path is required"])
        ELSE IF path \notin Files \/ files[path] = NoFile
        THEN ToolReturns([error |-> "File not found"])
        ELSE LET all_lines == files[path]
                 start == WindowStart(from_line)
                 end == Min(Len(all_lines), start + lines)
             IN  ToolReturns([path |-> path, from |-> from_line, to |-> end,
                              content |-> Join(PySlice(all_lines, start, end))])

\* an empty result list reported as a result list
SearchShape_NoMessage(results) == [results |-> results]

\* "if not results: return {message, results: []}", else {results}
SearchShape(results) ==
    IF results = <<>>
    THEN [message |-> "No matching memories found.", results |-> <<>>]
    ELSE [results |-> results]

\* get_db of mcp_server.py: None when the database file does not exist
DbMissing(dbf) == ~dbf

\* tool_memory_search; embed_ok tells whether the embedding provider answers
tool_memory_search(arguments, embed_ok) ==
    LET query == ArgGet(arguments, "query", <<>>)
        max_results == ArgGet(arguments, "maxResults", DEFAULT_LIMIT)
        min_score == ArgGet(arguments, "minScore", MIN_SCORE)
    IN  IF query = <<>> THEN {ToolReturns([error |-> "Query is required"])}
        ELSE IF DbMissing(db_file)
        THEN {ToolReturns([error |-> "Memory database not found. Run index.py first."])}
        ELSE {ToolReturns(SearchShape(out.results)) :
                 out \in mcp_hybrid_search(Db, query, max_results, min_score, embed_ok)}

\* tool_memory_index: the indexer subprocess on one file or on all
tool_memory_index(arguments) ==
    LET file_path == ArgGet(arguments, "path", "")
        rebuild == ArgGet(arguments, "rebuild", FALSE)
        db1 == IF file_path = ""
               THEN index_all(Db, files, rebuild, [f \in Files |-> {}])
               ELSE IF file_path \in Files /\ files[file_path] # NoFile
               THEN index_file(Db, file_path, files[file_path], rebuild, {}).db
               ELSE Db
    IN  ToolOutcome(FALSE, [success |-> TRUE, output |-> "Total chunks", error |-> "None"],
                    files, db1, TRUE)

RECURSIVE RStrip(_)
\* existing.rstrip() as lines: the trailing empty lines go, the empty text
\* stays the one empty line
RStrip(lines) ==
    IF Len(lines) > 1 /\ lines[Len(lines)] = "E"
    THEN RStrip(SubSeq(lines, 1, Len(lines) - 1))
    ELSE lines

\* existing.rstrip() + "\n\n" + content + "\n"
Appended(existing, content) == RStrip(existing) \o <<"E">> \o content \o <<"E">>

\* f"# {today}\n\n{content}\n": the heading is a short line
NewDaily(content) == <<"S", "E">> \o content \o <<"E">>

\* the file of today's daily log
DailyFile == "memory/a.md"

\* tool_memory_write, for files that hold no "---" separator
tool_memory_write(arguments) ==
    LET target == ArgGet(arguments, "target", "daily")
        content == ArgGet(arguments, "content", <<"E">>)
        file_path == IF target = "longterm" THEN "MEMORY.md" ELSE DailyFile
        existing == IF files[file_path] = NoFile THEN <<"E">> ELSE files[file_path]
        new_content == IF target # "longterm" /\ files[file_path] = NoFile
                       THEN NewDaily(content)
                       ELSE Appended(existing, content)
    IN  IF content = <<"E">> THEN ToolReturns([error |-> "Content is required"])
        ELSE ToolOutcome(FALSE,
                         [success |-> TRUE, path |-> file_path, message |-> "Written"],
                         [files EXCEPT ![file_path] = new_content], Db, db_file)

ToolNames == {"memory_search", "memory_get", "memory_index", "memory_write"}

\* handlers.get(name)(arguments): what the handler does, and its name
RunHandler(name, args_ok, arguments, embed_ok) ==
    LET outs == IF ~args_ok THEN {ToolRaised}
                ELSE CASE name = "memory_search" -> tool_memory_search(arguments, embed_ok)
                       [] name = "memory_get"    -> {tool_memory_get(arguments)}
                       [] name = "memory_index"  -> {tool_memory_index(arguments)}
                       [] OTHER                  -> {tool_memory_write(arguments)}
    IN  {[o EXCEPT !.result = IF o.raised THEN o.result
                              ELSE [content |-> o.result,
                                    isError |-> "error" \in DOMAIN o.result]] @@
         [ran |-> name] : o \in outs}

\* the unknown tool run as memory_write
UnknownTool_Dispatched(name, args_ok, arguments, embed_ok) ==
    RunHandler("memory_write", args_ok, arguments, embed_ok)

\* "if not handler": an error-flagged text result, no handler called
UnknownTool(name, args_ok, arguments, embed_ok) ==
    {ToolReturns([content |-> [text |-> "Unknown tool"], isError |-> TRUE])
       @@ [ran |-> ""]}

\* handle_tools_call; params that are no dict make params.get raise
handle_tools_call(msg, embed_ok) ==
    IF ~msg.params_ok THEN {ToolRaised @@ [ran |-> ""]}
    ELSE IF msg.name \notin ToolNames
    THEN UnknownTool(msg.name, msg.args_ok, msg.arguments, embed_ok)
    ELSE RunHandler(msg.name, msg.args_ok, msg.arguments, embed_ok)

\* One incoming message.  frame is how its header block reads: "ok" (a
\* numeric Content-Length and a body of that length), "no_length" (no
\* Content-Length header), "zero_length", "bad_length" (Content-Length is
\* no number) or "eof" (end of input).  body is what json.loads makes of
\* the body: an object, no JSON at all, or JSON that is no object.
Msg(frame, body, method, has_id, params_ok, name, args_ok, arguments) ==
    [frame |-> frame, body |-> body, method |-> method, has_id |-> has_id,
     params_ok |-> params_ok, name |-> name, args_ok |-> args_ok,
     arguments |-> arguments]

Methods == {"initialize", "notifications/initialized", "tools/list",
            "tools/call", "ping"}

GetArguments ==
    {<<>>, [path |-> "nope.md"], [path |-> "MEMORY.md"]}
    \cup {[path |-> "MEMORY.md", from |-> f, lines |-> n] :
             f \in (0 - 1)..(MaxLines + 1), n \in 0..MaxLines}

SearchArguments ==
    {<<>>, [query |-> <<"alpha">>]}
    \cup {[query |-> <<"alpha">>, maxResults |-> k, minScore |-> m] :
             k \in 0..1, m \in MinScores}

IndexArguments == {<<>>, [path |-> "MEMORY.md"], [rebuild |-> TRUE]}

WriteArguments ==
    {<<>>, [content |-> <<"S">>], [target |-> "longterm", content |-> <<"S">>]}

ArgumentsOf(name) ==
    CASE name = "memory_get"    -> GetArguments
      [] name = "memory_search" -> SearchArguments
      [] name = "memory_index"  -> IndexArguments
      [] name = "memory_write"  -> WriteArguments
      [] OTHER                  -> {<<>>, [content |-> <<"S">>]}

Messages ==
    {Msg(f, "", "", FALSE, TRUE, "", TRUE, <<>>) :
        f \in {"eof", "no_length", "zero_length", "bad_length"}}
    \cup {Msg("ok", b, "", FALSE, TRUE, "", TRUE, <<>>) :
             b \in {"bad_json", "not_object"}}
    \cup {Msg("ok", "object", m, i, TRUE, "", TRUE, <<>>) :
             m \in Methods \ {"tools/call"}, i \in BOOLEAN}
    \cup {Msg("ok", "object", "tools/call", i, FALSE, "", TRUE, <<>>) : i \in BOOLEAN}
    \cup UNION {UNION {{Msg("ok", "object", "tools/call", i, TRUE, n, TRUE, a) :
                           a \in ArgumentsOf(n)}
                       \cup {Msg("ok", "object", "tools/call", i, TRUE, n, FALSE, <<>>)} :
                          n \in ToolNames \cup {"nope"}} : i \in BOOLEAN}

\* read_message: "none" (it returns None), "raise" or "message".  After a
\* header whose Content-Length was no number the body is still unread, and
\* what is read next is that body with the next header line glued to it: no
\* Content-Length is found
ReadMessage(msg) ==
    IF leftover THEN "none"
    ELSE CASE msg.frame \in {"eof", "no_length", "zero_length"} -> "none"
           [] msg.frame = "bad_length"                          -> "raise"
           [] msg.body = "bad_json"                             -> "raise"
           [] OTHER                                             -> "message"

\* a response: code is 0 and message empty when it carries a result
Response(id, code, message, result) ==
    [id |-> id, code |-> code, message |-> message, result |-> result]

NoResponse == Response(None, 0, "", <<>>)

\* what one iteration did: read is what read_message made of the input,
\* id the id of the message (None without one), ran the tool handler called
RpcRecord(msg, read, id, responded, response, ran) ==
    [op |-> "rpc", msg |-> msg, read |-> read, id |-> id,
     responded |-> responded, response |-> response, ran |-> ran]

\* the except clause without its send_response
OnException_Silent(msg, read, id, bound, text) ==
    /\ replies' = replies
    /\ last' = RpcRecord(msg, read, id, FALSE, NoResponse, "")

\* the except clause of main answers with whatever msg_id is bound to
OnException(msg, read, id, bound, text) ==
    IF bound # Unbound /\ bound # None
    THEN /\ replies' = Append(replies, bound)
         /\ last' = RpcRecord(msg, read, id, TRUE,
                              Response(bound, 0 - 32603, text, <<>>), "")
    ELSE /\ replies' = replies
         /\ last' = RpcRecord(msg, read, id, FALSE, NoResponse, "")

\* "if msg_id is not None: send_response(response)"
Respond(msg, id, code, message, result, ran) ==
    IF id # None
    THEN /\ replies' = Append(replies, id)
         /\ last' = RpcRecord(msg, "message", id, TRUE,
                              Response(id, code, message, result), ran)
    ELSE /\ replies' = replies
         /\ last' = RpcRecord(msg, "message", id, FALSE, NoResponse, ran)

\* one iteration of the loop of main on the message msg
Receive(msg, embed_ok) ==
    /\ running
    /\ received < MaxMessages
    /\ received' = received + 1
    /\ prev' = NoRun
    /\ LET rd == ReadMessage(msg)
           id == IF msg.has_id THEN received + 1 ELSE None
       IN  CASE rd = "none" ->
                  /\ running' = FALSE
                  /\ last' = RpcRecord(msg, rd, None, FALSE, NoResponse, "")
                  /\ UNCHANGED <<msg_id, leftover, replies, files, chunks,
                                 embeddings, db_file>>
             [] rd = "raise" ->
                  /\ OnException(msg, rd, None, msg_id, "invalid literal or JSON")
                  /\ leftover' = (msg.frame = "bad_length")
                  /\ UNCHANGED <<running, msg_id, files, chunks, embeddings, db_file>>
             [] rd = "message" /\ msg.body = "not_object" ->
                  /\ OnException(msg, rd, None, msg_id, "object has no attribute 'get'")
                  /\ UNCHANGED <<running, msg_id, leftover, files, chunks,
                                 embeddings, db_file>>
             [] rd = "message" /\ msg.body = "object" /\ msg.method # "tools/call" ->
                  /\ msg_id' = id
                  /\ CASE msg.method = "initialize" ->
                            Respond(msg, id, 0, "", [protocolVersion |-> "2024-11-05"], "")
                       [] msg.method = "tools/list" ->
                            Respond(msg, id, 0, "", [tools |-> ToolNames], "")
                       [] msg.method = "notifications/initialized" ->
                            /\ replies' = replies
                            /\ last' = RpcRecord(msg, rd, id, FALSE, NoResponse, "")
                       [] OTHER ->
                            Respond(msg, id, 0 - 32601, "Method not found", <<>>, "")
                  /\ UNCHANGED <<running, leftover, files, chunks, embeddings, db_file>>
             [] OTHER ->
                  /\ msg_id' = id
                  /\ \E o \in handle_tools_call(msg, embed_ok) :
                        /\ \A c \in o.db.chunks : c.id <= MaxId + MaxMessages
                        /\ IF o.raised
                           THEN OnException(msg, rd, id, id, o.result)
                           ELSE Respond(msg, id, 0, "", o.result, o.ran)
                        /\ files' = o.fs
                        /\ chunks' = o.db.chunks
                        /\ embeddings' = o.db.embeddings
                        /\ db_file' = o.db_file
                  /\ UNCHANGED <<running, leftover>>
    /\ UNCHANGED <<edits, watcher_vars, tx_vars>>

ServerDocs == {<<"S", "B", "S">>, NoFile}

\* the server starts on a directory that was indexed, or on one that never
\* was (no database file)
ServerInit ==
    \E doc \in ServerDocs, dbf \in BOOLEAN :
        LET fs == [f \in Files |-> IF f = "MEMORY.md" THEN doc ELSE NoFile]
            db1 == IF dbf THEN index_all(EmptyDb, fs, FALSE, [f \in Files |-> {}])
                   ELSE EmptyDb
        IN  /\ files = fs
            /\ chunks = db1.chunks
            /\ embeddings = db1.embeddings
            /\ edits = 0
            /\ last = NoRun
            /\ prev = NoRun
            /\ WatcherIdle
            /\ TxIdle
            /\ running = TRUE
            /\ msg_id = Unbound
            /\ leftover = FALSE
            /\ received = 0
            /\ replies = <<>>
            /\ db_file = dbf

ServerNext == \E msg \in Messages, embed_ok \in BOOLEAN : Receive(msg, embed_ok)

ServerSpec == ServerInit /\ [][ServerNext]_vars

(***************************************************************************)
(* index_file statement by statement, next to a reading connection.  The   *)
(* indexer's connection is in a transaction from its first INSERT or       *)
(* DELETE until conn.commit(); chunks and embeddings are the committed     *)
(* tables, which is what any other connection reads, and conn.db is the    *)
(* indexer's own view of them.                                             *)
(***************************************************************************)
TxDocs == {<<"S">>, <<"S", "B">>, <<"B", "S">>}

\* every statement of index_file commits by itself
AfterStatement_Autocommit(committed, working) == working

\* the committed tables after a statement of index_file other than
\* conn.commit(): no statement commits by itself
AfterStatement(committed, working) == committed

\* the directory was indexed once, then edited
TxInit ==
    \E d0 \in TxDocs \cup {NoFile}, fs \in [Files -> TxDocs \cup {NoFile}] :
        LET fs0 == [f \in Files |-> IF f = "MEMORY.md" THEN d0 ELSE NoFile]
            db1 == index_all(EmptyDb, fs0, FALSE, [f \in Files |-> {}])
        IN  /\ files = fs
            /\ chunks = db1.chunks
            /\ embeddings = db1.embeddings
            /\ edits = 0
            /\ last = NoRun
            /\ prev = NoRun
            /\ WatcherIdle
            /\ ServerIdle
            /\ TxIdle

\* the connection after a statement that left it in state c
Statement(c) ==
    /\ conn' = c
    /\ \E db1 \in {AfterStatement(Db, c.db)} :
           /\ chunks' = db1.chunks
           /\ embeddings' = db1.embeddings
    /\ UNCHANGED <<files, edits, last, prev, seen, watcher_vars, server_vars>>

\* index_file is entered on an existing file and reads its text
TxOpen(f, force, fails) ==
    /\ conn.pc = "idle"
    /\ files[f] # NoFile
    /\ fails \subseteq 1..Len(chunk_text(files[f], f))
    /\ \A c \in index_file(Db, f, files[f], force, fails).db.chunks : c.id <= MaxId
    /\ conn' = [pc |-> IF force THEN "force" ELSE "loop",
                file |-> f, text |-> files[f], force |-> force, fails |-> fails,
                cs |-> chunk_text(files[f], f), k |-> 1,
                st |-> [db |-> Db, added |-> 0, skipped |-> 0, failed |-> 0],
                db |-> Db, start |-> Db]
    /\ seen' = NoRead
    /\ UNCHANGED <<files, chunks, embeddings, edits, last, prev,
                   watcher_vars, server_vars>>

\* the ids the cursor of the force branch has not met yet
ForceRows(c) ==
    {x.id : x \in {d \in c.db.chunks : d.file_path = c.file}}
        \cap {e.chunk_id : e \in c.db.embeddings}

\* DELETE FROM embeddings WHERE chunk_id = ?, for the cursor's next row
TxDeleteEmbedding ==
    /\ conn.pc = "force"
    /\ ForceRows(conn) # {}
    /\ LET id == SetMin(ForceRows(conn))
       IN  Statement([conn EXCEPT
               !.db.embeddings = {e \in @ : e.chunk_id # id}])

\* DELETE FROM chunks WHERE file_path = ?
TxDeleteChunks ==
    /\ conn.pc = "force"
    /\ ForceRows(conn) = {}
    /\ LET db1 == [conn.db EXCEPT
                      !.chunks = {c \in @ : c.file_path # conn.file}]
       IN  Statement([conn EXCEPT !.db = db1, !.st.db = db1, !.pc = "loop"])

\* the lookup of the next chunk and, when it is new, its INSERT
TxInsertChunk ==
    /\ conn.pc = "loop"
    /\ conn.k <= Len(conn.cs)
    /\ LET chunk == conn.cs[conn.k]
           c_hash == content_hash(chunk.content)
       IN  IF Existing(conn.db, chunk.file_path, chunk.line_start, c_hash) # {}
           THEN LET st1 == IndexStep(conn.st, chunk, conn.k, conn.fails)
                IN  Statement([conn EXCEPT !.st = st1, !.db = st1.db,
                                           !.k = @ + 1])
           ELSE Statement([conn EXCEPT
                    !.db = InsertChunk(conn.db, NewChunkId(conn.db), chunk, c_hash),
                    !.pc = "embedding"])

\* get_embedding answers or raises: the INSERT of the embedding, or the
\* DELETE of the chunk
TxEmbed ==
    /\ conn.pc = "embedding"
    /\ LET st1 == IndexStep(conn.st, conn.cs[conn.k], conn.k, conn.fails)
       IN  Statement([conn EXCEPT !.st = st1, !.db = st1.db, !.k = @ + 1,
                                  !.pc = "loop"])

\* conn.commit()
TxCommit ==
    /\ conn.pc = "loop"
    /\ conn.k > Len(conn.cs)
    /\ chunks' = conn.db.chunks
    /\ embeddings' = conn.db.embeddings
    /\ conn' = Closed
    /\ UNCHANGED <<files, edits, last, prev, seen, watcher_vars, server_vars>>

\* a SELECT of another connection (vector_search, text_search): it reads
\* the committed tables
Read ==
    /\ seen' = [op |-> "read", db |-> Db, pc |-> conn.pc,
                working |-> IF conn.pc = "idle" THEN Db ELSE conn.db]
    /\ UNCHANGED <<files, chunks, embeddings, edits, last, prev, conn,
                   watcher_vars, server_vars>>

TxNext ==
    \/ \E f \in Files, force \in BOOLEAN, fails \in SUBSET (1..MaxChunks) :
            TxOpen(f, force, fails)
    \/ TxDeleteEmbedding
    \/ TxDeleteChunks
    \/ TxInsertChunk
    \/ TxEmbed
    \/ TxCommit
    \/ Read

TxSpec == TxInit /\ [][TxNext]_vars

(***************************************************************************)
(* Ingestion properties                                                    *)
(***************************************************************************)
ChunksOf(f) == {c \in chunks : c.file_path = f}

Slice(c) == [line_start |-> c.line_start, line_end |-> c.line_end, content |-> c.content]

\* the chunks the chunker derives from the current text of file f
Derived(f) == {Slice(c) : c \in Range(chunk_text(files[f], f))}

\* C1: at the end of every index_file run, whatever the runs before it,
\* every stored chunk has exactly one embedding and every embedding belongs
\* to a stored chunk, so the two tables have the same number of rows.
C1_NoOrphanEmbeddings ==
    /\ \A c \in chunks : Cardinality({e \in embeddings : e.chunk_id = c.id}) = 1
    /\ \A e \in embeddings : \E c \in chunks : c.id = e.chunk_id
    /\ Cardinality(chunks) = Cardinality(embeddings)

\* a run on changed content in which one embedding failed and another chunk
\* was stored
C1_Witness ==
    /\ last.op = "index" /\ last.failed >= 1 /\ last.added >= 1
    /\ edits >= 2
    /\ Cardinality(chunks) >= 2

\* C2: no two stored chunks share file path, start line and content hash.
C2_UniqueTriple ==
    \A c, d \in chunks :
        (/\ c.file_path = d.file_path
         /\ c.line_start = d.line_start
         /\ c.content_hash = d.content_hash) => c = d

\* a run that met a stored chunk again, in a store holding two chunks of
\* one file that start at the same line
C2_Witness ==
    /\ last.op = "index" /\ last.skipped >= 1
    /\ \E c, d \in chunks : /\ c # d
                            /\ c.file_path = d.file_path
                            /\ c.line_start = d.line_start

TwiceInARow ==
    /\ last.op = "index" /\ last.found /\ ~last.force
    /\ prev.op = "index" /\ ~prev.force

NothingAdded == last.added = 0 /\ Cardinality(chunks) = last.before

ExactRebuild ==
    /\ {Slice(c) : c \in ChunksOf(last.file)} = Derived(last.file)
    /\ Cardinality(ChunksOf(last.file)) = Len(chunk_text(files[last.file], last.file))

C5_ChunksCoverInOrder ==
    last.op = "chunk" =>
        LET out == last.out
            L == Len(last.text)
        IN  /\ \A i \in 1..Len(out) : out[i].line_start <= out[i].line_end
            /\ \A i \in 1..(Len(out) - 1) :
                   /\ out[i].line_start <= out[i + 1].line_start
                   /\ out[i + 1].line_start <= out[i].line_end + 1
            /\ \A n \in 1..L :
                   \E i \in 1..Len(out) : out[i].line_start <= n /\ n <= out[i].line_end

\* a text cut into three chunks, the second overlapping the first
C5_Witness ==
    /\ last.op = "chunk"
    /\ Len(last.out) >= 3
    /\ last.out[2].line_start <= last.out[1].line_end

(***************************************************************************)
(* Search properties                                                       *)
(***************************************************************************)
Searched == last.op = "search" /\ ~last.out.raised

ReturnedIds == {last.out.results[i].chunk_id : i \in 1..Len(last.out.results)}

\* the candidates of the two paths and the fused score of each
Candidates == DOMAIN last.out.vector_scores \cup DOMAIN last.out.text_scores

VScore(cid) == Get(last.out.vector_scores, cid)

TScore(cid) == Get(last.out.text_scores, cid)

Fused(cid) == IF last.keyword_only THEN 10 * TScore(cid)
              ELSE 7 * VScore(cid) + 3 * TScore(cid)

\* fewer than limit other candidates reach the threshold with a fused score
\* at least that of cid
RanksWithinLimit(cid) ==
    Cardinality({d \in Candidates \ {cid} :
                    Fused(d) >= last.min_score /\ Fused(d) >= Fused(cid)})
        < last.limit

\* C6: a search returns at most limit results, each with a fused score of
\* at least min_score, in non-increasing score order, and no candidate that
\* reaches min_score and is left out has a greater fused score than a
\* returned one.
C6_RankedFilteredTruncated ==
    Searched =>
        LET res == last.out.results
        IN  /\ Len(res) <= last.limit
            /\ \A i \in 1..Len(res) :
                   /\ res[i].final = Fused(res[i].chunk_id)
                   /\ res[i].final >= last.min_score
            /\ \A i, j \in 1..Len(res) :
                   i < j => /\ res[i].final >= res[j].final
                            /\ res[i].score >= res[j].score
                            /\ res[i].chunk_id # res[j].chunk_id
            /\ \A cid \in Candidates \ ReturnedIds :
                   Fused(cid) >= last.min_score =>
                       \A i \in 1..Len(res) : Fused(cid) <= res[i].final

\* a search cut at limit 2 that left out a candidate above the threshold
\* and dropped another one below it
C6_Witness ==
    /\ Searched
    /\ last.limit = 2 /\ Len(last.out.results) = 2
    /\ last.min_score = MIN_SCORE
    /\ \E cid \in Candidates \ ReturnedIds : Fused(cid) >= last.min_score
    /\ \E cid \in Candidates : Fused(cid) < last.min_score

\* C7: the fused score of every candidate is 0.7*vector + 0.3*text with 0
\* for the path that did not return it, and the text score alone under
\* keyword_only, where the vector score is 0 and the provider is not asked.
C7_FusionFormula ==
    Searched =>
        /\ DOMAIN last.out.combined = Candidates
        /\ \A cid \in DOMAIN last.out.combined :
               LET sc == last.out.combined[cid]
               IN  /\ sc.v = VScore(cid)
                   /\ sc.t = TScore(cid)
                   /\ IF last.keyword_only
                      THEN sc.final = 10 * sc.t /\ sc.v = 0
                      ELSE sc.final = 7 * sc.v + 3 * sc.t
        /\ last.keyword_only => ~last.out.embed_called
        /\ \A i \in 1..Len(last.out.results) :
               last.out.results[i].final
                   = last.out.combined[last.out.results[i].chunk_id].final

\* a hybrid search with a candidate scored by both paths and a candidate
\* the keyword path did not return
C7_Witness ==
    /\ Searched /\ ~last.keyword_only
    /\ \E cid \in Candidates : VScore(cid) > 0 /\ TScore(cid) > 0
    /\ \E cid \in DOMAIN last.out.vector_scores :
           cid \notin DOMAIN last.out.text_scores /\ VScore(cid) # 0

LexicalOnlyReturned(no_vector) ==
    \A cid \in DOMAIN last.out.text_scores :
        (/\ cid \in no_vector
         /\ 3 * TScore(cid) >= last.min_score
         /\ RanksWithinLimit(cid)) => cid \in ReturnedIds

VectorOnlyReturned ==
    \A cid \in DOMAIN last.out.vector_scores \ DOMAIN last.out.text_scores :
        (/\ 7 * VScore(cid) >= last.min_score
         /\ RanksWithinLimit(cid)) => cid \in ReturnedIds

\* C8 as stated: with keyword_only=false, a chunk matched by the keyword
\* path whose vector similarity is not above 0 is returned whenever
\* 0.3*text_score >= min_score and it ranks within the limit, and likewise
\* a chunk found only by the vector path.
C8_AsStated ==
    (Searched /\ ~last.keyword_only) =>
        LET not_above_zero == {cid \in Candidates : VScore(cid) <= 0}
        IN  LexicalOnlyReturned(not_above_zero) /\ VectorOnlyReturned

\* C8 amended: the same for a chunk whose vector similarity is 0 or that
\* the vector path did not return.
C8_UnionOfCandidates ==
    (Searched /\ ~last.keyword_only) =>
        LET zero == {cid \in Candidates : VScore(cid) = 0}
        IN  LexicalOnlyReturned(zero) /\ VectorOnlyReturned

\* a hybrid search, the provider answering, that returns a chunk the
\* keyword path alone scored and a chunk the vector path alone scored
C8_Witness ==
    /\ Searched /\ ~last.keyword_only /\ last.embed_ok
    /\ last.min_score = MIN_SCORE
    /\ \E cid \in ReturnedIds :
           cid \in DOMAIN last.out.text_scores /\ VScore(cid) = 0 /\ TScore(cid) > 0
    /\ \E cid \in ReturnedIds :
           cid \notin DOMAIN last.out.text_scores /\ VScore(cid) > 0

ScoredIds(results) ==
    [i \in 1..Len(results) |->
        [chunk_id |-> results[i].chunk_id, final |-> results[i].final]]

\* C9: when the embedding provider fails during a search with
\* keyword_only=false, the search does not fail and returns what the
\* keyword-only search of the same query returns, with the same scores.
C9_DegradesToKeywordOnly ==
    (last.op = "search" /\ ~last.keyword_only /\ ~last.embed_ok) =>
        /\ ~last.out.raised
        /\ ScoredIds(last.out.results) \in
               {ScoredIds(k.results) :
                   k \in hybrid_search(Db, last.query, last.limit,
                                       last.min_score, TRUE, TRUE)}

Malformed(query) == \E i \in 1..Len(query) : HasQuote(query[i])

\* C10: a keyword query the full-text index rejects does not raise out of
\* hybrid_search: the text score map is empty, the store is unchanged, and
\* the search returns the ranking by the vector path alone.
C10_MalformedKeywordQuery ==
    [][(/\ last'.op = "search"
        /\ last' # last
        /\ Malformed(last'.query)
        /\ (last'.keyword_only \/ last'.embed_ok))
       => (/\ ~last'.out.raised
           /\ last'.out.text_scores = <<>>
           /\ chunks' = chunks /\ embeddings' = embeddings /\ files' = files
           /\ (~last'.keyword_only =>
                  last'.out.vector_scores \in
                      vector_search(Db, query_embedding(last'.query), CANDIDATE_LIMIT))
           /\ DOMAIN last'.out.combined = DOMAIN last'.out.vector_scores
           /\ \A cid \in DOMAIN last'.out.combined :
                  last'.out.combined[cid].final
                      = IF last'.keyword_only THEN 0
                        ELSE 7 * last'.out.vector_scores[cid]
           /\ last'.out \in
                  Fuse(Db, <<>>, last'.out.vector_scores, last'.out.embed_called,
                       last'.limit, last'.min_score, last'.keyword_only,
                       last'.impl = "mcp"))]_vars

\* a malformed query over a store that holds its term, answered with
\* results from the vector path
C10_Witness ==
    /\ Searched /\ Malformed(last.query)
    /\ ~last.keyword_only /\ last.embed_ok
    /\ last.out.text_scores = <<>>
    /\ Len(last.out.results) >= 1
    /\ \E c \in chunks : TermCount(c.content, "alpha") > 0

(***************************************************************************)
(* Watcher properties                                                      *)
(***************************************************************************)
ThreadsIn(pcs) == {t \in 1..Len(threads) : threads[t].pc \in pcs}

\* nothing is left to happen: no event is being accepted and every timer
\* thread has ended
Quiescent == lock = "free" /\ ThreadsIn({"armed", "fired", "indexing"}) = {}

\* the accepted events are one burst on one file: each less than the
\* debounce delay after the one before
Burst ==
    /\ Len(accepted) >= 1
    /\ \A i \in 1..Len(accepted) : accepted[i].path = accepted[1].path
    /\ \A i \in 1..(Len(accepted) - 1) :
           accepted[i + 1].time - accepted[i].time < DEBOUNCE_SECONDS

\* C11: a burst of N >= 1 events on one file, each less than the debounce
\* delay after the one before, ends with exactly one ingestion invocation,
\* which names the file once.
C11_OneInvocationPerBurst ==
    (Quiescent /\ Burst) =>
        /\ Len(runs) = 1
        /\ runs[1].files = {accepted[1].path}

\* C12: paths leave the pending set only all together, into the file list
\* of an invocation launched in the same step, and a non-empty pending set
\* is eventually taken: every accepted path is eventually handed to an
\* invocation launched after it was accepted.
C12_NoLostUpdate ==
    /\ [][pending_files # pending_files' =>
             \/ pending_files \subseteq pending_files'
             \/ /\ Len(runs') = Len(runs) + 1
                /\ runs'[Len(runs')].files = pending_files]_vars
    /\ (pending_files # {}) ~> (pending_files = {})

\* two events on different files, both handed to one invocation
C12_Witness ==
    /\ Len(accepted) >= 2
    /\ pending_files = {}
    /\ \E i \in 1..Len(runs) : Cardinality(runs[i].files) = 2

\* C13: at most one watcher-triggered ingestion run is in progress.
C13_SingleIndexer == Cardinality(ThreadsIn({"indexing"})) <= 1

\* C14: no ingestion invocation starts less than the debounce delay after
\* the most recent accepted event.
C14_QuietBeforeIngestion ==
    [][Len(runs') > Len(runs) =>
          now >= accepted[Len(accepted)].time + DEBOUNCE_SECONDS]_vars

(***************************************************************************)
(* Protocol server properties                                              *)
(***************************************************************************)
Rpc == last.op = "rpc"

\* the last message was read as a JSON object
RpcObject == Rpc /\ last.read = "message" /\ last.msg.body = "object"

\* the last message was a tools/call whose params are a dict
RpcToolsCall == RpcObject /\ last.msg.method = "tools/call" /\ last.msg.params_ok

\* C15: whatever the last message was, unless it was the end of input, the
\* loop of main is still running after it.
C15_LoopSurvives == (Rpc /\ last.msg.frame # "eof") => running

\* C16: the responses sent carry the ids of distinct requests in the order
\* of the requests, the response sent for a message carries that message's
\* id, and a message without an id or a notifications/initialized message
\* gets no response.
C16_OneResponseInOrder ==
    /\ \A i, j \in 1..Len(replies) : i < j => replies[i] < replies[j]
    /\ (Rpc /\ last.responded) =>
           /\ last.msg.has_id
           /\ last.response.id = last.id
           /\ last.msg.method # "notifications/initialized"

\* the dispatch of the last request raised
DispatchRaised ==
    /\ RpcObject
    /\ last.msg.method = "tools/call"
    /\ \/ ~last.msg.params_ok
       \/ last.msg.name \in ToolNames /\ ~last.msg.args_ok

\* C17: a request with an id and a method that is none of the four gets
\* the error -32601 and no result; a request with an id whose dispatch
\* raises gets a response with its id, the error -32603 and the text of
\* the exception.
C17_ErrorCodes ==
    /\ (/\ RpcObject /\ last.msg.has_id
        /\ last.msg.method \notin {"initialize", "notifications/initialized",
                                   "tools/list", "tools/call"}) =>
           /\ last.responded
           /\ last.response.id = last.id
           /\ last.response.code = 0 - 32601
           /\ last.response.result = <<>>
    /\ (DispatchRaised /\ last.msg.has_id) =>
           /\ last.responded
           /\ last.response.id = last.id
           /\ last.response.code = 0 - 32603
           /\ last.response.message = ToolRaised.result
           /\ last.response.result = <<>>

\* a tool call with an id whose dispatch raised, answered after an earlier
\* request was
C17_Witness ==
    /\ DispatchRaised /\ last.msg.has_id /\ last.responded
    /\ Len(replies) = 2

\* C18: a tools/call naming an unknown tool is answered by a result (no
\* error object) flagged isError, runs no handler and changes neither the
\* files nor the store.
C18_UnknownTool ==
    [][(/\ received' = received + 1
        /\ last'.op = "rpc" /\ last'.read = "message"
        /\ last'.msg.body = "object" /\ last'.msg.method = "tools/call"
        /\ last'.msg.params_ok
        /\ last'.msg.name \notin ToolNames)
       => (/\ last'.ran = ""
           /\ last'.msg.has_id =>
                 /\ last'.responded
                 /\ last'.response.code = 0
                 /\ last'.response.result.isError = TRUE
           /\ files' = files /\ chunks' = chunks /\ embeddings' = embeddings
           /\ db_file' = db_file)]_vars

\* an unknown tool called with arguments a known tool would act on
C18_Witness ==
    /\ RpcToolsCall /\ last.msg.name = "nope" /\ last.responded
    /\ last.msg.arguments # <<>>

\* the last message was a memory_get call that was handled
RpcGet == RpcToolsCall /\ last.ran = "memory_get" /\ last.msg.args_ok

GetArgs == last.msg.arguments

\* the tool result the last tools/call was answered with
ToolResult == last.response.result.content

\* the lines lo..hi of a file, joined
LinesOf(all_lines, lo, hi) ==
    Join(IF lo > hi THEN <<>> ELSE SubSeq(all_lines, lo, hi))

\* memory_get answers with the lines lo..hi of the file, and with to = hi
\* when there is such a line
GetReturns(lo, hi) ==
    /\ DOMAIN ToolResult = {"path", "from", "to", "content"}
    /\ last.response.result.isError = FALSE
    /\ ToolResult.content = LinesOf(files[GetArgs.path], lo, hi)
    /\ lo <= hi => ToolResult.to = hi

NoSuchFile(path) == path \notin Files \/ files[path] = NoFile

GetMissingPath ==
    (RpcGet /\ last.responded
       /\ ("path" \notin DOMAIN GetArgs \/ NoSuchFile(GetArgs.path)))
      => DOMAIN ToolResult = {"error"} /\ last.response.result.isError = TRUE

GetWindow ==
    RpcGet /\ last.responded /\ DOMAIN GetArgs = {"path", "from", "lines"}
      /\ ~NoSuchFile(GetArgs.path)

\* C19 as stated: memory_get returns the lines in the intersection of
\* [from, from+lines-1] with [1, L], to being the last of them, for every
\* integer from and lines >= 0; a missing or non-existent path gives {error}.
C19_AsStated ==
    /\ GetWindow =>
          GetReturns(Max(GetArgs.from, 1),
                     Min(GetArgs.from + GetArgs.lines - 1, Len(files[GetArgs.path])))
    /\ GetMissingPath

\* C19 amended: the window starts at from, or at line 1 when from is below
\* 1, and holds `lines` lines, cut at the last line L.
C19_ClampedWindow ==
    /\ GetWindow =>
          GetReturns(Max(GetArgs.from, 1),
                     Min(Max(GetArgs.from, 1) + GetArgs.lines - 1,
                         Len(files[GetArgs.path])))
    /\ GetMissingPath

\* a window that starts inside the file and is cut at its last line
C19_Witness ==
    /\ GetWindow
    /\ GetArgs.from = 2
    /\ GetArgs.lines > Len(files[GetArgs.path])
    /\ ToolResult.to = Len(files[GetArgs.path])
    /\ ToolResult.content = SubSeq(files[GetArgs.path], 2, Len(files[GetArgs.path]))

\* the last message was a memory_search call that was handled
RpcSearch == RpcToolsCall /\ last.ran = "memory_search" /\ last.msg.args_ok
                /\ last.responded

SearchQuery == ArgGet(last.msg.arguments, "query", <<>>)

\* the searches memory_search may have run: hybrid_search with the
\* arguments of the call, the embedding provider answering or not
SearchOuts ==
    UNION {mcp_hybrid_search(Db, SearchQuery,
                             ArgGet(last.msg.arguments, "maxResults", DEFAULT_LIMIT),
                             ArgGet(last.msg.arguments, "minScore", MIN_SCORE), e) :
              e \in BOOLEAN}

Reaching(out) ==
    Filtered(out.combined, ArgGet(last.msg.arguments, "minScore", MIN_SCORE))

MessageShape ==
    DOMAIN ToolResult = {"message", "results"} /\ ToolResult.results = <<>>

ResultsShape(out) ==
    /\ DOMAIN ToolResult = {"results"}
    /\ ToolResult.results = out.results
    /\ ToolResult.results # <<>>

\* {error} exactly when the query is missing or empty or the database file
\* does not exist
ErrorShape ==
    RpcSearch =>
        ((SearchQuery = <<>> \/ ~db_file) <=> DOMAIN ToolResult = {"error"})

EmptyText == <<"E">>

IndexedEmpty ==
    last.op = "index" /\ last.found /\ files[last.file] = EmptyText

\* C21: chunk_text on the empty text yields no chunks, so an index_file run
\* on an empty file adds no chunk to the store.
C21_EmptyDocumentNoChunks ==
    IndexedEmpty =>
        /\ chunk_text(files[last.file], last.file) = <<>>
        /\ last.added = 0

RECURSIVE SumTokens(_)
\* the summed per-line approximate-token count of a chunk's lines
SumTokens(content) ==
    IF content = <<>> THEN 0
    ELSE estimate_tokens(Head(content)) + SumTokens(Tail(content))

OverBudgetLine(content) ==
    \E i \in 1..Len(content) : estimate_tokens(content[i]) > CHUNK_SIZE

\* C22: every chunk of chunk_text sums to at most CHUNK_SIZE approximate
\* tokens, unless it holds a line that alone exceeds CHUNK_SIZE.
C22_ChunkWithinBudget ==
    last.op = "chunk" =>
        \A i \in 1..Len(last.out) :
            \/ SumTokens(last.out[i].content) <= CHUNK_SIZE
            \/ OverBudgetLine(last.out[i].content)

(***************************************************************************)
(* Reader isolation                                                        *)
(***************************************************************************)
Paired(db) ==
    /\ \A c \in db.chunks :
           Cardinality({e \in db.embeddings : e.chunk_id = c.id}) = 1
    /\ \A e \in db.embeddings : \E c \in db.chunks : c.id = e.chunk_id

\* C23: whatever a reader sees while index_file runs, every chunk in it has
\* its embedding; the committed tables change only at conn.commit(), and
\* then to the state the whole index_file call produces from the state it
\* started in (inserts, rollback deletions and force deletions together).
C23_ReaderSeesCommits ==
    /\ [](seen.op = "read" => Paired(seen.db))
    /\ [][/\ Db' # Db =>
                /\ conn.pc = "loop" /\ conn.k > Len(conn.cs)
                /\ conn' = Closed
                /\ Db' = index_file(conn.start, conn.file, conn.text,
                                    conn.force, conn.fails).db
          /\ (seen' # seen /\ seen'.op = "read") => seen'.db = Db]_vars

\* a reader ran between the INSERT of a chunk and that of its embedding in
\* a forced run, and the run has committed a different store since
C23_Witness ==
    /\ seen.op = "read" /\ seen.pc = "embedding"
    /\ ~Paired(seen.working)
    /\ seen.working.chunks # seen.db.chunks
    /\ conn = Closed
    /\ Db # seen.db

(***************************************************************************)
(* Watcher: freshness, timers, event capture                               *)
(***************************************************************************)
\* an ingestion of file f launched by the watcher has completed
Flushed(f) ==
    \E t \in ThreadsIn({"done"}) : f \in threads[t].files

\* C24: once the watcher has flushed a modified file and nothing is
\* pending or running, the chunks stored for the file are exactly the
\* chunks the chunker derives from its current content.
C24_FreshAfterFlush ==
    \A f \in Files :
        (Flushed(f) /\ pending_files = {} /\ Quiescent) =>
            {Slice(c) : c \in ChunksOf(f)} = Derived(f)

\* the timers that were started and have neither been cancelled in time
\* nor run their callback yet
Outstanding == ThreadsIn({"armed", "fired"})

\* C25: outside the handler's critical section at most one debounce timer
\* is outstanding and the timer field refers to it: a non-empty pending set
\* implies exactly one, and once a flush has cleared the pending set and
\* reset the timer field no timer started before can still fire.
C25_OneTimerOutstanding ==
    lock = "free" =>
        /\ Cardinality(Outstanding) <= 1
        /\ pending_files # {} => Outstanding = {timer}
        /\ (pending_files = {} /\ timer = None) => Outstanding = {}

\* C26: while an ingestion launched by the watcher runs, the handler's
\* lock is free or held by the event thread only; an event accepted during
\* the run is added to the pending set, the rest of _schedule_index arms a
\* timer, and the pending set is eventually handed, whole, to an
\* invocation launched later.
C26_CaptureDuringIngestion ==
    /\ [](ThreadsIn({"indexing"}) # {} => lock \in {"free", "event"})
    /\ [][/\ (ThreadsIn({"indexing"}) # {} /\ accepted' # accepted) =>
                /\ accepted'[Len(accepted')].path \in pending_files'
                /\ lock' = "event"
          /\ (ThreadsIn({"indexing"}) # {} /\ lock = "event" /\ lock' = "free") =>
                /\ timer' \in 1..Len(threads')
                /\ threads'[timer'].pc = "armed"
                /\ timer' \notin 1..Len(threads)
          /\ (ThreadsIn({"indexing"}) # {} /\ pending_files # {}
                /\ pending_files' = {}) =>
                /\ Len(runs') = Len(runs) + 1
                /\ runs'[Len(runs')].files = pending_files]_vars
    /\ (ThreadsIn({"indexing"}) # {} /\ pending_files # {}) ~> (pending_files = {})

\* an event was accepted after an invocation was launched and has been
\* handed to a second invocation while the first is still running
C26_Witness ==
    /\ Len(runs) >= 2
    /\ threads[runs[1].thread].pc = "indexing"
    /\ \E i \in 1..Len(accepted) :
           /\ accepted[i].time >= runs[1].start
           /\ accepted[i].path \in runs[2].files
           /\ runs[2].start >= accepted[i].time + DEBOUNCE_SECONDS

\* a create or modify event of a file with the .md suffix that is the root
\* memory file or lies under the memory directory
Relevant(e) ==
    /\ e.kind \in {"modified", "created"}
    /\ ~e.is_directory
    /\ Suffix(e.path) = ".md"
    /\ (e.path = "MEMORY.md" \/ UnderMemoryDir(e.path))

\* C27: the delivery of an event that is not a create or modify event of a
\* relevant file leaves the pending set, the timer, the timer threads and
\* the invocations as they are, and only a relevant event is ever accepted.
C27_OnlyRelevantEvents ==
    [][/\ (last' # last /\ ~Relevant(last')) =>
              UNCHANGED <<pending_files, timer, lock, threads, accepted, runs>>
       /\ accepted' # accepted =>
              /\ Relevant(last')
              /\ accepted'[Len(accepted')].path = last'.path]_vars

\* a delete event of MEMORY.md, the event of a directory, an event of a
\* file with another suffix or in another place was delivered while a
\* path was pending and a timer armed
C27_Witness ==
    /\ last.op = "event"
    /\ \/ last.kind = "deleted" /\ last.path = "MEMORY.md" /\ ~last.is_directory
       \/ last.is_directory /\ last.kind = "modified"
       \/ last.path = "memory/a.txt" /\ last.kind = "created" /\ ~last.is_directory
       \/ last.path = "README.md" /\ last.kind = "modified" /\ ~last.is_directory
    /\ pending_files # {}
    /\ Outstanding # {}

(***************************************************************************)
(* Ingestion: embedding failures, frame of a run, rebuild of everything    *)
(***************************************************************************)
\* the step is an index_file run on an existing file
Ran == last'.op = "index" /\ last'.found

\* the chunks of the file of the run as the chunker derives them
RunChunks == chunk_text(files[last'.file], last'.file)

\* chunk ch is stored after the run, with one embedding
StoredAfter(ch) ==
    \E c \in chunks' :
        /\ c.file_path = ch.file_path
        /\ Slice(c) = Slice(ch)
        /\ Cardinality({e \in embeddings' : e.chunk_id = c.id}) = 1

\* all chunks but one are stored with their embedding, the store holds no
\* chunk without embedding, the chunks inserted by the run got their ids in
\* document order, and the run stored added chunks on top of the set kept
OneFailureOnly(kept) ==
    /\ last'.added + last'.skipped = Len(RunChunks) - 1
    /\ \E k \in 1..Len(RunChunks) :
           \A j \in 1..Len(RunChunks) : j # k => StoredAfter(RunChunks[j])
    /\ Paired([chunks |-> chunks', embeddings |-> embeddings'])
    /\ \A c, d \in chunks' \ kept :
           c.line_start < d.line_start => c.id < d.id
    /\ kept \subseteq chunks'
    /\ Cardinality(chunks') = Cardinality(kept) + last'.added

\* C28 as stated: in a run in which the embedding of one chunk fails, every
\* other chunk of the file is processed in document order and stored with
\* its embedding, the failed chunk is removed, and the chunks stored before
\* the run are untouched.
C28_AsStated ==
    [][(Ran /\ last'.failed = 1) => OneFailureOnly(chunks)]_vars

\* C28 amended: the same, the chunks stored before the run being untouched
\* except those of the file itself when force is set.
C28_FailureDoesNotAbort ==
    [][(Ran /\ last'.failed = 1) =>
          OneFailureOnly(IF last'.force
                         THEN {c \in chunks : c.file_path # last'.file}
                         ELSE chunks)]_vars

\* the embedding of the first chunk of a file failed in a run that stored
\* the second, next to a chunk stored before
C28_Witness ==
    /\ last.op = "index" /\ last.found /\ last.failed = 1 /\ last.added = 1
    /\ last.before >= 1
    /\ LET cs == chunk_text(files[last.file], last.file)
       IN  /\ Len(cs) = 2
           /\ ~\E c \in ChunksOf(last.file) : Slice(c) = Slice(cs[1])
           /\ \E c \in ChunksOf(last.file) : Slice(c) = Slice(cs[2])

\* C29: index_file with force=false removes and changes no chunk and no
\* embedding that was stored before the call: the store after the call
\* holds every row stored before it, and the chunks the call added on top.
C29_NoForceKeepsRows ==
    [][(last'.op = "index" /\ ~last'.force) =>
          /\ chunks \subseteq chunks'
          /\ embeddings \subseteq embeddings'
          /\ Cardinality(chunks') = Cardinality(chunks) + last'.added]_vars

\* a run without force on a changed file in which an embedding failed and
\* a chunk was added to the two stored before
C29_Witness ==
    /\ last.op = "index" /\ last.found /\ ~last.force
    /\ last.failed >= 1 /\ last.added >= 1
    /\ last.before = 2
    /\ Cardinality(chunks) = 3

\* C30: after index_all(force=true) with no embedding failure every stored
\* chunk belongs to a file that exists and is one of the chunks the chunker
\* derives from the file's current content.
C30_RebuildLeavesNoStaleChunk ==
    (last.op = "index_all" /\ last.force /\ last.clean) =>
        \A c \in chunks :
            /\ files[c.file_path] # NoFile
            /\ Slice(c) \in Derived(c.file_path)

(***************************************************************************)
(* Chunker: overlap, content, order of the chunks                          *)
(***************************************************************************)
\* the last n lines of a chunk's content
Suffix_n(content, n) == SubSeq(content, Len(content) - n + 1, Len(content))

\* the number of lines chunk i + 1 shares with chunk i, by its start line
OverlapCount(out, i) == out[i].line_end + 1 - out[i + 1].line_start

\* C31: after a split the next chunk starts with the longest suffix of the
\* previous chunk's lines that sums to at most CHUNK_OVERLAP approximate
\* tokens, followed by the line that did not fit, and its start line is
\* the line number of the first of these lines.
C31_OverlapIsLongestSuffix ==
    last.op = "chunk" =>
        \A i \in 1..(Len(last.out) - 1) :
            LET before == last.out[i].content
                after == last.out[i + 1].content
                n == OverlapCount(last.out, i)
            IN  /\ n \in 0..Len(before)
                /\ Len(after) >= n + 1
                /\ SubSeq(after, 1, n) = Suffix_n(before, n)
                /\ after[n + 1] = last.text[last.out[i].line_end + 1]
                /\ SumTokens(Suffix_n(before, n)) <= CHUNK_OVERLAP
                /\ \/ n = Len(before)
                   \/ SumTokens(Suffix_n(before, n + 1)) > CHUNK_OVERLAP

\* a split after two short lines: the second is carried over, the first
\* would exceed the overlap budget
C31_Witness ==
    /\ last.op = "chunk"
    /\ Len(last.out) = 2
    /\ Len(last.out[1].content) = 2
    /\ OverlapCount(last.out, 1) = 1
    /\ estimate_tokens(last.out[1].content[1]) > 0

\* C32: the content of every chunk is the lines start..end of the text,
\* whole, a line over the budget included.
C32_ContentIsSourceLines ==
    last.op = "chunk" =>
        \A i \in 1..Len(last.out) :
            /\ 1 <= last.out[i].line_start
            /\ last.out[i].line_end <= Len(last.text)
            /\ last.out[i].content =
                   SubSeq(last.text, last.out[i].line_start, last.out[i].line_end)

\* a chunk of two lines, one of which exceeds the budget alone
C32_Witness ==
    /\ last.op = "chunk"
    /\ \E i \in 1..Len(last.out) :
           /\ Len(last.out[i].content) = 2
           /\ OverBudgetLine(last.out[i].content)
           /\ last.out[i].content =
                  SubSeq(last.text, last.out[i].line_start, last.out[i].line_end)

\* C33 as stated: consecutive chunks have strictly increasing start lines
\* and strictly increasing end lines, and no chunk's line range is
\* contained in another chunk's.
C33_AsStated ==
    last.op = "chunk" =>
        /\ \A i \in 1..(Len(last.out) - 1) :
               /\ last.out[i].line_start < last.out[i + 1].line_start
               /\ last.out[i].line_end < last.out[i + 1].line_end
        /\ \A i, j \in 1..Len(last.out) :
               (/\ i # j
                /\ last.out[j].line_start <= last.out[i].line_start
                /\ last.out[i].line_end <= last.out[j].line_end) => FALSE

\* C33 amended: consecutive chunks have non-decreasing start lines and
\* strictly increasing end lines, so no chunk's line range is contained in
\* the line range of a chunk before it.
C33_EndsIncrease ==
    last.op = "chunk" =>
        /\ \A i \in 1..(Len(last.out) - 1) :
               /\ last.out[i].line_start <= last.out[i + 1].line_start
               /\ last.out[i].line_end < last.out[i + 1].line_end
        /\ \A i, j \in 1..Len(last.out) :
               i < j => ~(/\ last.out[i].line_start <= last.out[j].line_start
                          /\ last.out[j].line_end <= last.out[i].line_end)

\* the whole first chunk fits the overlap budget: the second chunk starts
\* on the same line and contains it
C33_Witness ==
    /\ last.op = "chunk"
    /\ Len(last.out) >= 2
    /\ last.out[1].line_start = last.out[2].line_start
    /\ last.out[1].line_end < last.out[2].line_end
    /\ estimate_tokens(last.text[1]) > 0

(***************************************************************************)
(* Candidate searches                                                      *)
(***************************************************************************)
Searching == last.op = "candidates"

\* the relevance of a keyword candidate: minus its bm25 value
Relevance(cid) ==
    0 - (CHOOSE r \in last.matched : r.rowid = cid).score

\* C34: text_search gives every candidate a score between 0 and 1; when
\* the relevance values of the returned candidates differ the best gets 1
\* and the worst 0, when they are all equal every candidate gets 0, and a
\* candidate at least as relevant as another scores at least as high.
C34_MinMaxNormalised ==
    Searching =>
        LET scores == last.text.scores
            ids == DOMAIN scores
            best == {c \in ids : \A d \in ids : Relevance(c) >= Relevance(d)}
            worst == {c \in ids : \A d \in ids : Relevance(c) <= Relevance(d)}
        IN  /\ ~last.text.raised
            /\ ids \subseteq {r.rowid : r \in last.matched}
            /\ \A c \in ids : 0 <= scores[c] /\ scores[c] <= Scale
            /\ \A c \in best : scores[c] = IF best = worst THEN 0 ELSE Scale
            /\ \A c \in worst : scores[c] = 0
            /\ \A c, d \in ids :
                   /\ Relevance(c) >= Relevance(d) => scores[c] >= scores[d]
                   /\ Relevance(c) > Relevance(d) => scores[c] > scores[d]

\* both cases at once: two candidates of different relevance were
\* returned, with scores 1 and 0
C34_Witness ==
    /\ Searching
    /\ Cardinality(last.matched) > last.limit
    /\ \E c, d \in DOMAIN last.text.scores :
           /\ Relevance(c) > Relevance(d)
           /\ last.text.scores[c] = Scale
           /\ last.text.scores[d] = 0

\* the stored chunks that have an embedding
Embedded == {c.id : c \in {x \in chunks : \E e \in embeddings : e.chunk_id = x.id}}

\* the similarity of the query of the search and the embedding of chunk cid
Similarity(cid) ==
    cosine_similarity(query_embedding(last.query),
        blob_to_embedding((CHOOSE e \in embeddings : e.chunk_id = cid).embedding))

\* C35: vector_search returns min(limit, number of chunks with an
\* embedding) of these chunks with their similarity, no chunk left out is
\* strictly more similar than a chunk kept, and the candidates of the two
\* searches together are at most twice the limit.
C35_TopBySimilarity ==
    Searching =>
        LET kept == DOMAIN last.vector
        IN  /\ kept \subseteq Embedded
            /\ Cardinality(kept) = Min(last.limit, Cardinality(Embedded))
            /\ \A c \in kept : last.vector[c] = Similarity(c)
            /\ \A c \in kept, d \in Embedded \ kept : Similarity(d) <= Similarity(c)
            /\ Cardinality(kept \cup DOMAIN last.text.scores) <= 2 * last.limit

\* the limit cut off a chunk that is less similar than one kept
C35_Witness ==
    /\ Searching
    /\ last.limit >= 1
    /\ Cardinality(DOMAIN last.vector) = last.limit
    /\ \E c \in DOMAIN last.vector, d \in Embedded \ DOMAIN last.vector :
           Similarity(d) < Similarity(c)

\* the last message was a call of a known tool that was answered with a result
RpcAnswered ==
    /\ RpcToolsCall
    /\ last.ran \in ToolNames
    /\ last.responded
    /\ last.response.code = 0

\* the tool reported a failure: its result says success is false, or it has
\* no success field and carries an error
ReportedFailure(result) ==
    IF "success" \in DOMAIN result
    THEN result.success = FALSE
    ELSE "error" \in DOMAIN result

\* C36: the result of a tools/call has isError true exactly when the tool
\* reported a failure; a memory_index call whose indexer exits with code 0
\* has isError false, a memory_get or memory_search call that returns an
\* error has isError true.
C36_IsErrorIffFailure ==
    RpcAnswered =>
        (last.response.result.isError <=> ReportedFailure(ToolResult))

====
